---- MODULE Spec2Model ----
(***************************************************************************)
(* Motion-coordination subsystem of the orthocyclic winder.                *)
(*                                                                         *)
(*  Part 1  StepperMotor28BYJ48 (micropython/esp32s2/wire-guide_motor.py): *)
(*          the bounded command queue and the step-pulse executor, called  *)
(*          from a queue-processor thread and from the control surface.    *)
(*  Part 2  home_traversal_guide (micropython/picow/winder_homeposition.py)*)
(*  Part 3  wind_first_layer (micropython/picow/wind_layer.py)             *)
(*                                                                         *)
(* Specifications:                                                         *)
(*   Spec         one queue-draining thread ("proc") and one control       *)
(*                context ("api"), interleaved statement by statement      *)
(*   SpecCap      a sequence of whole calls on one motor, up to capacity   *)
(*   SpecTwoDrain two contexts that both call the executor methods         *)
(***************************************************************************)
EXTENDS Integers, Sequences, FiniteSets, TLC

\* ---------------------------------------------------------------- bounds
\* Commands accepted by queue_step in one behaviour of Spec.
MaxAccepted == 3
\* Commands accepted in one behaviour of SpecTwoDrain.
TwoMaxAccepted == 2
\* Commands accepted in one behaviour of SpecCap (enough to fill the queue).
CapMaxAccepted == 101
\* total_steps is capped at this value in SpecCap (guards of the executors).
CapMaxTotal == 3

\* ------------------------------------------------------- program constants
\* deque((), 100): the deque's maxlen.
DEQUE_MAXLEN == 100
\* queue_step: if len(self.command_queue) >= 100.
QUEUE_LIMIT == 100

\* 8-step sequence, FULL_STEP_SEQUENCE.
FULL_STEP_SEQUENCE ==
    << <<1, 0, 0, 0>>, <<1, 1, 0, 0>>, <<0, 1, 0, 0>>, <<0, 1, 1, 0>>,
       <<0, 0, 1, 0>>, <<0, 0, 1, 1>>, <<0, 0, 0, 1>>, <<1, 0, 0, 1>> >>

\* release(): every pin at 0.
ReleasedPins == <<0, 0, 0, 0>>

\* The two control flows that share one motor object.
Ctx == {"proc", "api"}

\* Inputs of queue_step drawn by the callers: steps (negative allowed, the
\* executor takes abs) and direction.
StepChoices == {-1, 2}
DirChoices == {1, -1}

Abs(n) == IF n < 0 THEN -n ELSE n

NoCmd == [type |-> "none", steps |-> 0, direction |-> 0, delay |-> "None", id |-> 0]

\* The dict queue_step appends.  id is a history tag (the number of commands
\* accepted before this one); the program does not store it.
MakeCommand(steps, direction, n) ==
    [type |-> "step", steps |-> steps, direction |-> direction,
     delay |-> "None", id |-> n]

VARIABLES
    \* --- StepperMotor28BYJ48 object
    command_queue,   \* deque of commands, oldest first
    is_executing,    \* self.is_executing
    total_steps,     \* self.total_steps
    current_step,    \* self.current_step, index into the sequence (0..7)
    pins,            \* the four coil outputs
    \* --- per control flow
    pc,              \* position of each context in the method it runs
    op,              \* the method each context called last
    command,         \* local `command`
    pulses_left,     \* iterations of step()'s for loop still to run
    loaded_total,    \* value of total_steps read by `+=` before its store
    exc,             \* exception that ended the context's last call
    ret,             \* value returned by the context's last call, as text
    \* --- history
    accepted,        \* number of commands accepted by queue_step so far
    executed,        \* ids of the commands whose step() completed, in order
    cleared,         \* ids of the commands removed by clear_queue
    call_total0,     \* total_steps when the context's current call began
    call_accepted0,  \* accepted when the context's current call began
    call_sum,        \* sum of abs(steps) of the commands the call popped
    call_pulses,     \* pulses emitted by the call
    call_reset,      \* reset_step_count ran since the call began
    chk1,            \* what the call saw at line 193 ("none" before it)
    chk2             \* what the call saw at line 195 ("none" before it)
    ,
    \* --- NEMA17Stepper object (nema17.py), the traversal stepper
    stepper_enabled,   \* self._enabled
    en_pin,            \* level of the EN pin (active low: 0 enables)
    dir_pin,           \* level of the DIR pin (1 clockwise)
    dir_needs_settle,  \* self._dir_needs_settle
    \* --- home_traversal_guide (winder_homeposition.py)
    h_pc,                   \* position of the coroutine
    h_exc,                  \* how the coroutine was left ("none" while it runs)
    already_home,
    steps_taken,
    sk_phase,               \* which seek_home call is running
    sk_steps,               \* seek_home's local `steps`
    refine_steps_primary,
    refine_steps_fallback,
    recovery_steps_ccw,
    recovery_steps_cw,
    sm_steps,               \* step_motor's argument `steps`
    sm_index,               \* pulses step_motor has emitted in this call
    sm_return,              \* the caller step_motor returns to
    h_pulses,               \* history: pulses issued by the whole run
    sensor_read,                \* history: the last ir_sensor_inside.value()
    \* --- wind_first_layer (wind_layer.py)
    w_pc,                       \* position of the winding coroutine
    w_exc,                      \* the exception that left it ("none" if none)
    w_pending,                  \* the exception in flight while finally runs
    t_pc,                       \* position of the traversal task
    running,
    stop_requested,
    interrupted,
    traversal_exception,        \* TRUE when it is not None
    encoder_slot_count,
    traversal_steps_moved,
    encoder_in_gap,
    filtered_slot_interval_ms,
    irq_attached,               \* encoder_pin.irq has a handler
    duty_value,
    pwm_duty,                   \* the duty last written to motor_pwm
    pwm_active,                 \* _active_motor_pwm is not None
    gate_pin,                   \* level of the gate pin once the PWM is gone
    step_deficit,
    slot_fraction,              \* the extrapolation last added to the slot
                                \* count, in hundredths of a slot
    steps_emitted,
    remaining_steps,
    fb_index,                   \* pulses emitted by the fallback step_motor
    fallback_started,           \* history: the fallback move was issued
    now_ms,                     \* time.ticks_ms()
    last_encoder_irq_ms,
    last_encoder_slot_ms,
    ms_since_irq_stamp,         \* history: true time since last_encoder_irq_ms
                                \* was written, up to ENCODER_DEBOUNCE_MS
    irq_outcome,                \* history: the last encoder_irq call was
                                \* "debounced", or read "active"/"inactive"
    inactive_since_slot,        \* history: an accepted inactive reading came
                                \* after the last counted slot
    pulses_since_yield,         \* history: step pulses the traversal task
                                \* has emitted since it last yielded
    \* --- winding_plan (windingcalculator.py); lengths in 0.01 mm
    plan_pc,                    \* position of the planning call
    plan_exc,                   \* the exception that ended it ("none" if none)
    plan_caller,                \* who asked for the plan
    total_turns,
    spool_width_mm,
    wire_diameter_mm,
    odd_steps,
    even_steps,
    layers,
    remaining_turns,            \* winding_plan's local `remaining`
    layer_num,
    \* --- pulse timing of drive_traversal_from_encoder, in microseconds
    step_interval_us,
    next_step_lag_us,           \* time.ticks_diff(now, next_step_us)
    us_since_pulse,             \* history: time since the last pulse began,
                                \* counted up to STEPPER_MIN_INTERVAL_US
    pulse_gap_us,               \* history: that time when the last pulse began
    \* --- the speed control loop of wind_first_layer with its clock
    last_slots,
    control_elapsed_ms,         \* time.ticks_diff(time.ticks_ms(), last_control_ms)
    error_times_kp,             \* speed_error_cpm * speed_control_kp_duty_per_cpm
                                \* of the last tick, as <<numerator, denominator>>
    control_ticks,              \* history: ticks evaluated (lines 309-320)
    \* --- the context that queues commands and waits for their completion
    watch_pc,                   \* where it is in its two reads
    accepted_steps,             \* history: sum of abs(steps) of the accepted
                                \* commands
    \* --- the encoder's photo-interrupter and its edges
    sensor_level,               \* the level of encoder_pin
    ms_since_edge,              \* history: time since the last edge of the
                                \* pin, counted up to ENCODER_DEBOUNCE_MS
    ms_since_accept,            \* history: time since last_encoder_irq_ms was
                                \* written, counted up to half a clock period
    last_interval_ms,           \* history: slot_interval_ms of the last slot
    min_interval_ms,            \* history: the smallest and the largest
    max_interval_ms,            \* positive slot_interval_ms so far, 0 if none
    \* --- NAU7802 (nau7802_async.py): the DRDY interrupt path
    drdy_flag,                  \* _drdy_flag: "none", or the ThreadSafeFlag
                                \* being "clear" or "set"
    drdy_irq_count,
    drdy_rising_count,
    drdy_falling_count,
    drdy_schedule_drop_count,
    scheduled,                  \* _drdy_signal callbacks waiting in the
                                \* queue of micropython.schedule
    drdy_irq_signalled,         \* history: the last call of the handler set
                                \* the flag itself
    \* --- WinderCoordinator (test_winder_coordination.py)
    current_layer,
    current_wire,
    current_slot,
    current_direction,
    layer_complete,
    all_layers_complete,
    layer_announced,
    total_steps_queued,
    trigger_result,             \* what the last simulate_slot_trigger
                                \* returned: "none", "True" or "False"
    trigger_rejected,           \* history: a call found the queue full
    \* --- SpindleMotor (esp32s2/spindle_motor.py)
    spindle_current,            \* self.current
    spindle_target,             \* self.target
    spindle_ramp_rate,          \* self.ramp_rate
    spindle_duty,               \* the last value given to pwm.duty_u16
    single_floats,              \* the build's floats are single precision
                                \* (seen at the first conversion)
    speed_changes               \* history: set_speed calls so far

motor == <<command_queue, is_executing, total_steps, current_step, pins>>
locals == <<pc, op, command, pulses_left, loaded_total, exc, ret>>
history == <<accepted, executed, cleared, call_total0, call_accepted0, call_sum,
             call_pulses, call_reset, chk1, chk2>>
qvars == <<motor, locals, history>>
svars == <<stepper_enabled, en_pin, dir_pin, dir_needs_settle>>
hvars == <<h_pc, h_exc, already_home, steps_taken, sk_phase, sk_steps,
           refine_steps_primary, refine_steps_fallback, recovery_steps_ccw,
           recovery_steps_cw, sm_steps, sm_index, sm_return, h_pulses,
           sensor_read>>
wvars == <<w_pc, w_exc, w_pending, t_pc, running, stop_requested, interrupted,
           traversal_exception, encoder_slot_count, traversal_steps_moved,
           encoder_in_gap, filtered_slot_interval_ms, irq_attached, duty_value,
           pwm_duty, pwm_active, gate_pin, step_deficit, slot_fraction, steps_emitted,
           remaining_steps, fb_index, fallback_started, now_ms,
           last_encoder_irq_ms, last_encoder_slot_ms, ms_since_irq_stamp,
           irq_outcome, inactive_since_slot, pulses_since_yield>>
pvars == <<plan_pc, plan_exc, plan_caller, total_turns, spool_width_mm,
           wire_diameter_mm, odd_steps, even_steps, layers, remaining_turns,
           layer_num>>
pulse_vars == <<step_interval_us, next_step_lag_us, us_since_pulse, pulse_gap_us>>
speed_vars == <<last_slots, control_elapsed_ms, error_times_kp, control_ticks>>
watch_vars == <<watch_pc, accepted_steps>>
seen_intervals == <<last_interval_ms, min_interval_ms, max_interval_ms>>
edge_vars == <<sensor_level, ms_since_edge, ms_since_accept, seen_intervals>>
drdy_vars == <<drdy_flag, drdy_irq_count, drdy_rising_count, drdy_falling_count,
               drdy_schedule_drop_count, scheduled, drdy_irq_signalled>>
coord_vars == <<current_layer, current_wire, current_slot, current_direction,
                layer_complete, all_layers_complete, layer_announced,
                total_steps_queued, trigger_result, trigger_rejected>>
spindle_vars == <<spindle_current, spindle_target, spindle_ramp_rate,
                  spindle_duty, single_floats, speed_changes>>
unit_vars == <<drdy_vars, coord_vars, spindle_vars>>
timing_vars == <<pulse_vars, speed_vars, watch_vars, edge_vars>>
pace_vars == <<timing_vars, unit_vars>>
notqueue == <<svars, hvars, wvars, pvars, pace_vars>>
vars == <<qvars, svars, hvars, wvars, pvars, pace_vars>>

\* ------------------------------------------------------------ the deque
\* deque.popleft() of a non-empty deque: the item and what is left.
LifoPopleft(q) == [item |-> q[Len(q)], rest |-> SubSeq(q, 1, Len(q) - 1)]
Popleft(q) == [item |-> Head(q), rest |-> Tail(q)]

\* deque.append(x) on deque((), maxlen) without the overflow flag: a full
\* deque drops its oldest item to make room.
DequeAppend(q, x) ==
    IF Len(q) >= DEQUE_MAXLEN THEN Append(Tail(q), x) ELSE Append(q, x)

\* ----------------------------------------------------------- __init__
QInit ==
    /\ command_queue = <<>>
    /\ is_executing = FALSE
    /\ total_steps = 0
    /\ current_step = 0
    /\ pins = ReleasedPins
    /\ pc = [c \in Ctx |-> "idle"]
    /\ op = [c \in Ctx |-> "none"]
    /\ command = [c \in Ctx |-> NoCmd]
    /\ pulses_left = [c \in Ctx |-> 0]
    /\ loaded_total = [c \in Ctx |-> 0]
    /\ exc = [c \in Ctx |-> "none"]
    /\ ret = [c \in Ctx |-> "none"]
    /\ accepted = 0
    /\ executed = <<>>
    /\ cleared = {}
    /\ call_total0 = [c \in Ctx |-> 0]
    /\ call_accepted0 = [c \in Ctx |-> 0]
    /\ call_sum = [c \in Ctx |-> 0]
    /\ call_pulses = [c \in Ctx |-> 0]
    /\ call_reset = [c \in Ctx |-> FALSE]
    /\ chk1 = [c \in Ctx |-> "none"]
    /\ chk2 = [c \in Ctx |-> "none"]

\* A context begins a call: its per-call history starts afresh.  r is the
\* value the call has returned so far ("none" while it runs).
BeginCall(c, name, r) ==
    /\ op' = [op EXCEPT ![c] = name]
    /\ exc' = [exc EXCEPT ![c] = "none"]
    /\ ret' = [ret EXCEPT ![c] = r]
    /\ call_total0' = [call_total0 EXCEPT ![c] = total_steps]
    /\ call_accepted0' = [call_accepted0 EXCEPT ![c] = accepted]
    /\ call_sum' = [call_sum EXCEPT ![c] = 0]
    /\ call_pulses' = [call_pulses EXCEPT ![c] = 0]
    /\ call_reset' = [call_reset EXCEPT ![c] = FALSE]
    /\ chk1' = [chk1 EXCEPT ![c] = "none"]
    /\ chk2' = [chk2 EXCEPT ![c] = "none"]

\* Where an uncaught exception leaves the context: the queue-processor
\* thread has no handler and ends; the control surface catches and goes on.
AfterException(c) == IF c = "proc" THEN "crashed" ELSE "idle"

\* --------------------------------------------------------- queue_step
\* if len(self.command_queue) >= 100
QueueIsFullOffByOne(q) == Len(q) > QUEUE_LIMIT
QueueIsFull(q) == Len(q) >= QUEUE_LIMIT

\* The length test and the append are taken as one step: the only other
\* writers of the deque remove items.
QueueStepBody(c, steps, direction) ==
    /\ pc[c] = "idle"
    /\ op' = [op EXCEPT ![c] = "queue_step"]
    /\ exc' = [exc EXCEPT ![c] = "none"]
    /\ IF QueueIsFull(command_queue)
       THEN /\ ret' = [ret EXCEPT ![c] = "False"]
            /\ UNCHANGED <<command_queue, accepted>>
       ELSE /\ command_queue' =
                   DequeAppend(command_queue, MakeCommand(steps, direction, accepted))
            /\ accepted' = accepted + 1
            /\ ret' = [ret EXCEPT ![c] = "True"]
    /\ UNCHANGED <<is_executing, total_steps, current_step, pins, pc, command,
                   pulses_left, loaded_total, executed, cleared, call_total0, call_accepted0,
                   call_sum, call_pulses, call_reset, chk1, chk2>>

QueueStep(c, steps, direction) ==
    QueueStepBody(c, steps, direction) /\ UNCHANGED notqueue

\* --------------------------------------------------------------- step
\* One iteration of step()'s loop: _set_step(current_step), advance, sleep.
StepPulse(c) ==
    /\ pc[c] = "step_loop"
    /\ pulses_left[c] > 0
    /\ pins' = FULL_STEP_SEQUENCE[current_step + 1]
    /\ current_step' = (current_step + command[c].direction) % Len(FULL_STEP_SEQUENCE)
    /\ pulses_left' = [pulses_left EXCEPT ![c] = @ - 1]
    /\ call_pulses' = [call_pulses EXCEPT ![c] = @ + 1]
    /\ UNCHANGED <<command_queue, is_executing, total_steps, pc, op, command,
                   loaded_total, exc, ret, accepted, executed, cleared,
                   call_total0, call_accepted0, call_sum, call_reset, chk1, chk2>>
    /\ UNCHANGED notqueue

\* self.total_steps += steps_to_perform, first half: the read.
StepLoadTotal(c) ==
    /\ pc[c] = "step_loop"
    /\ pulses_left[c] = 0
    /\ loaded_total' = [loaded_total EXCEPT ![c] = total_steps]
    /\ pc' = [pc EXCEPT ![c] = "step_store"]
    /\ UNCHANGED <<motor, op, command, pulses_left, exc, ret, history>>
    /\ UNCHANGED notqueue

\* What `+=` stores for a command of `steps` steps.
SignedNewTotal(loaded, steps) == loaded + steps
NewTotal(loaded, steps) == loaded + Abs(steps)

\* Second half: the store.  release_after is False on both callers, so the
\* coils stay energized; control goes back to the calling method.
StepStoreTotal(c) ==
    /\ pc[c] = "step_store"
    /\ total_steps' = NewTotal(loaded_total[c], command[c].steps)
    /\ executed' = Append(executed, command[c].id)
    /\ pc' = [pc EXCEPT ![c] =
                 IF op[c] = "execute_all_queued" THEN "eaq_while" ELSE "eq_finally"]
    /\ UNCHANGED <<command_queue, is_executing, current_step, pins, op, command,
                   pulses_left, loaded_total, exc, ret, accepted, cleared,
                   call_total0, call_accepted0, call_sum, call_pulses, call_reset, chk1, chk2>>
    /\ UNCHANGED notqueue

\* command = self.command_queue.popleft() followed by the call of step():
\* steps_to_perform = abs(steps).
PopAndEnterStep(c) ==
    LET p == Popleft(command_queue) IN
    /\ command_queue' = p.rest
    /\ command' = [command EXCEPT ![c] = p.item]
    /\ pulses_left' = [pulses_left EXCEPT ![c] = Abs(p.item.steps)]
    /\ call_sum' = [call_sum EXCEPT ![c] = @ + Abs(p.item.steps)]
    /\ pc' = [pc EXCEPT ![c] = "step_loop"]

\* ------------------------------------------------------ execute_queue
\* if self.is_executing: return False
EQ_CheckExecuting(c) ==
    /\ pc[c] = "idle"
    /\ BeginCall(c, "execute_queue", IF is_executing THEN "False" ELSE "none")
    /\ pc' = [pc EXCEPT ![c] = IF is_executing THEN "idle" ELSE "eq_check_queue"]
    /\ UNCHANGED <<motor, command, pulses_left, loaded_total, accepted, executed,
                   cleared>>
    /\ UNCHANGED notqueue

\* if not self.command_queue: return False
EQ_CheckQueue(c) ==
    /\ pc[c] = "eq_check_queue"
    /\ IF command_queue = <<>>
       THEN /\ ret' = [ret EXCEPT ![c] = "False"]
            /\ pc' = [pc EXCEPT ![c] = "idle"]
       ELSE /\ ret' = ret
            /\ pc' = [pc EXCEPT ![c] = "eq_set_flag"]
    /\ UNCHANGED <<motor, op, command, pulses_left, loaded_total, exc, history>>
    /\ UNCHANGED notqueue

\* self.is_executing = True
EQ_SetFlag(c) ==
    /\ pc[c] = "eq_set_flag"
    /\ is_executing' = TRUE
    /\ pc' = [pc EXCEPT ![c] = "eq_pop"]
    /\ UNCHANGED <<command_queue, total_steps, current_step, pins, op, command,
                   pulses_left, loaded_total, exc, ret, history>>
    /\ UNCHANGED notqueue

\* command = self.command_queue.popleft(), before the try: an empty deque
\* raises IndexError out of the method with is_executing still True.
EQ_Pop(c) ==
    /\ pc[c] = "eq_pop"
    /\ IF command_queue = <<>>
       THEN /\ exc' = [exc EXCEPT ![c] = "IndexError"]
            /\ pc' = [pc EXCEPT ![c] = AfterException(c)]
            /\ UNCHANGED <<command_queue, command, pulses_left, call_sum>>
       ELSE /\ PopAndEnterStep(c)
            /\ exc' = exc
    /\ UNCHANGED <<is_executing, total_steps, current_step, pins, op,
                   loaded_total, ret, accepted, executed, cleared, call_total0, call_accepted0,
                   call_pulses, call_reset, chk1, chk2>>
    /\ UNCHANGED notqueue

\* The method is left: normally, or with the pending exception.
LeaveCall(c) == IF exc[c] = "none" THEN "idle" ELSE AfterException(c)

\* finally: self.is_executing = False; then return True, or the pending
\* exception of step() goes on to the caller.
EQ_Finally(c) ==
    /\ pc[c] = "eq_finally"
    /\ is_executing' = FALSE
    /\ ret' = [ret EXCEPT ![c] = IF exc[c] = "none" THEN "True" ELSE @]
    /\ pc' = [pc EXCEPT ![c] = LeaveCall(c)]
    /\ UNCHANGED <<command_queue, total_steps, current_step, pins, op, command,
                   pulses_left, loaded_total, exc, history>>
    /\ UNCHANGED notqueue

\* ------------------------------------------------- execute_all_queued
\* if not self.command_queue: return
EAQ_CheckQueue(c) ==
    /\ pc[c] = "idle"
    /\ BeginCall(c, "execute_all_queued", "none")
    /\ pc' = [pc EXCEPT ![c] = IF command_queue = <<>> THEN "idle" ELSE "eaq_set_flag"]
    /\ UNCHANGED <<motor, command, pulses_left, loaded_total, accepted, executed,
                   cleared>>
    /\ UNCHANGED notqueue

\* The value execute_all_queued writes to the flag before its loop
\* (line 164); nothing writes it again before the finally clause.
FlagNotRaised == FALSE
FlagForWholeDrain == TRUE

\* self.is_executing = True
EAQ_SetFlag(c) ==
    /\ pc[c] = "eaq_set_flag"
    /\ is_executing' = FlagForWholeDrain
    /\ pc' = [pc EXCEPT ![c] = "eaq_while"]
    /\ UNCHANGED <<command_queue, total_steps, current_step, pins, op, command,
                   pulses_left, loaded_total, exc, ret, history>>
    /\ UNCHANGED notqueue

\* while self.command_queue:
EAQ_While(c) ==
    /\ pc[c] = "eaq_while"
    /\ pc' = [pc EXCEPT ![c] = IF command_queue = <<>> THEN "eaq_finally" ELSE "eaq_pop"]
    /\ UNCHANGED <<motor, op, command, pulses_left, loaded_total, exc, ret, history>>
    /\ UNCHANGED notqueue

\* command = self.command_queue.popleft(), inside the try: an empty deque
\* raises IndexError, which runs the finally block and then leaves the method.
EAQ_Pop(c) ==
    /\ pc[c] = "eaq_pop"
    /\ IF command_queue = <<>>
       THEN /\ exc' = [exc EXCEPT ![c] = "IndexError"]
            /\ pc' = [pc EXCEPT ![c] = "eaq_finally"]
            /\ UNCHANGED <<command_queue, command, pulses_left, call_sum>>
       ELSE /\ PopAndEnterStep(c)
            /\ exc' = exc
    /\ UNCHANGED <<is_executing, total_steps, current_step, pins, op,
                   loaded_total, ret, accepted, executed, cleared, call_total0, call_accepted0,
                   call_pulses, call_reset, chk1, chk2>>
    /\ UNCHANGED notqueue

\* The value the finally clause writes to the flag (line 188).
FlagStaysUp == TRUE
FlagCleared == FALSE

\* finally: self.is_executing = False
EAQ_Finally(c) ==
    /\ pc[c] = "eaq_finally"
    /\ is_executing' = FlagCleared
    /\ pc' = [pc EXCEPT ![c] = "eaq_check1"]
    /\ UNCHANGED <<command_queue, total_steps, current_step, pins, op, command,
                   pulses_left, loaded_total, exc, ret, history>>
    /\ UNCHANGED notqueue

\* if not self.command_queue: time.sleep(0.05)
EAQ_Check1(c) ==
    /\ pc[c] = "eaq_check1"
    /\ chk1' = [chk1 EXCEPT ![c] = IF command_queue = <<>> THEN "empty" ELSE "pending"]
    /\ pc' = [pc EXCEPT ![c] = IF command_queue = <<>> THEN "eaq_sleep" ELSE LeaveCall(c)]
    /\ UNCHANGED <<motor, op, command, pulses_left, loaded_total, exc, ret,
                   accepted, executed, cleared, call_total0, call_accepted0, call_sum,
                   call_pulses, call_reset, chk2>>
    /\ UNCHANGED notqueue

\* The coil outputs after the second test at line 195 saw `empty`.
ReleaseAlways(empty) == ReleasedPins
ReleaseIfStillEmpty(empty) == IF empty THEN ReleasedPins ELSE pins

\* After the sleep: if not self.command_queue: self.release()
EAQ_Check2(c) ==
    /\ pc[c] = "eaq_sleep"
    /\ chk2' = [chk2 EXCEPT ![c] = IF command_queue = <<>> THEN "empty" ELSE "pending"]
    /\ pins' = ReleaseIfStillEmpty(command_queue = <<>>)
    /\ pc' = [pc EXCEPT ![c] = LeaveCall(c)]
    /\ UNCHANGED <<command_queue, is_executing, total_steps, current_step, op,
                   command, pulses_left, loaded_total, exc, ret, accepted,
                   executed, cleared, call_total0, call_accepted0, call_sum, call_pulses,
                   call_reset, chk1>>
    /\ UNCHANGED notqueue

\* -------------------------------------------------------- clear_queue
\* The loop test of clear_queue: it goes round while the deque holds a
\* command, in the first round (entered FALSE) as in every later one.
ClearStopsAfterOne(q, entered) == q # <<>> /\ ~entered
ClearLoopTest(q, entered) == q # <<>>

\* while self.command_queue:
CQ_While(c) ==
    /\ pc[c] \in {"idle", "cq_while"}
    /\ IF pc[c] = "idle"
       THEN /\ op' = [op EXCEPT ![c] = "clear_queue"]
            /\ exc' = [exc EXCEPT ![c] = "none"]
            /\ ret' = [ret EXCEPT ![c] = "none"]
       ELSE UNCHANGED <<op, exc, ret>>
    /\ pc' = [pc EXCEPT ![c] =
                 IF ClearLoopTest(command_queue, pc[c] = "cq_while")
                 THEN "cq_pop" ELSE "idle"]
    /\ UNCHANGED <<motor, command, pulses_left, loaded_total, history>>
    /\ UNCHANGED notqueue

\* self.command_queue.popleft()
CQ_Pop(c) ==
    /\ pc[c] = "cq_pop"
    /\ IF command_queue = <<>>
       THEN /\ exc' = [exc EXCEPT ![c] = "IndexError"]
            /\ pc' = [pc EXCEPT ![c] = AfterException(c)]
            /\ UNCHANGED <<command_queue, cleared>>
       ELSE /\ command_queue' = Popleft(command_queue).rest
            /\ cleared' = cleared \cup {Popleft(command_queue).item.id}
            /\ pc' = [pc EXCEPT ![c] = "cq_while"]
            /\ exc' = exc
    /\ UNCHANGED <<is_executing, total_steps, current_step, pins, op, command,
                   pulses_left, loaded_total, ret, accepted, executed,
                   call_total0, call_accepted0, call_sum, call_pulses, call_reset, chk1, chk2>>
    /\ UNCHANGED notqueue

\* --------------------------------------------------- reset_step_count
ResetStepCount(c) ==
    /\ pc[c] = "idle"
    /\ total_steps' = 0
    /\ op' = [op EXCEPT ![c] = "reset_step_count"]
    /\ exc' = [exc EXCEPT ![c] = "none"]
    /\ ret' = [ret EXCEPT ![c] = "none"]
    /\ call_reset' = [k \in Ctx |-> TRUE]
    /\ UNCHANGED <<command_queue, is_executing, current_step, pins, pc, command,
                   pulses_left, loaded_total, accepted, executed, cleared,
                   call_total0, call_accepted0, call_sum, call_pulses, chk1, chk2>>
    /\ UNCHANGED notqueue

\* ------------------------------------------------- a step() that raises
\* step() raises before its counter update: steps and delay reach it
\* unvalidated from the request body (abs() of a string, for example).
\* The exception runs the caller's finally clause.
StepRaise(c) ==
    /\ pc[c] = "step_loop"
    /\ exc' = [exc EXCEPT ![c] = "StepError"]
    /\ pc' = [pc EXCEPT ![c] =
                 IF op[c] = "execute_all_queued" THEN "eaq_finally" ELSE "eq_finally"]
    /\ UNCHANGED <<motor, op, command, pulses_left, loaded_total, ret, history>>
    /\ UNCHANGED notqueue

\* ------------------------------------------------------ the callers
\* The steps of the executor methods, for a context that is inside one.
ExecutorStep(c) ==
    \/ StepPulse(c)
    \/ StepLoadTotal(c)
    \/ StepStoreTotal(c)
    \/ EQ_CheckQueue(c)
    \/ EQ_SetFlag(c)
    \/ EQ_Pop(c)
    \/ EQ_Finally(c)
    \/ EAQ_SetFlag(c)
    \/ EAQ_While(c)
    \/ EAQ_Pop(c)
    \/ EAQ_Finally(c)
    \/ EAQ_Check1(c)
    \/ EAQ_Check2(c)

\* The control surface queues a move (stepper_move).
ApiQueueStep ==
    /\ accepted < MaxAccepted
    /\ \E s \in StepChoices, d \in DirChoices : QueueStep("api", s, d)

\* Spec: the queue-processor thread drains, the control surface queues,
\* clears and resets (microdotwifiserver.py).
\* ------------------------------------------ initial state of parts 2, 3
CLOCKWISE == 1
COUNTERCLOCKWISE == -1
SensorLevels == {0, 1}     \* ir_sensor_inside.value(); 0 is "at home"

Min(a, b) == IF a < b THEN a ELSE b

\* wind_layer.py lines 62-65.
STEPPER_DELAY_MS == 2
STEPPER_PULSE_WIDTH_US == 300
STEPPER_MIN_INTERVAL_US == 500
STEPPER_MAX_INTERVAL_US == 8000

\* nema17.py, enabled setter: the level written to the active-low EN pin.
EnLevel(value) == IF value THEN 0 ELSE 1

\* nema17.py, direction setter: the level written to the DIR pin.
DirLevel(value) == IF value = CLOCKWISE THEN 1 ELSE 0

\* ir_sensor_inside has not been read.
NoRead == 2

HInit ==
    /\ stepper_enabled = FALSE
    /\ en_pin = EnLevel(FALSE)
    /\ dir_pin = 0
    /\ dir_needs_settle = TRUE
    /\ h_pc = "start"
    /\ h_exc = "none"
    /\ already_home = FALSE
    /\ steps_taken = 0
    /\ sk_phase = "none"
    /\ sk_steps = 0
    /\ refine_steps_primary = 0
    /\ refine_steps_fallback = 0
    /\ recovery_steps_ccw = 0
    /\ recovery_steps_cw = 0
    /\ sm_steps = 0
    /\ sm_index = 0
    /\ sm_return = "none"
    /\ h_pulses = 0
    /\ sensor_read = NoRead

MAX_DUTY == 65535
MOTOR_DUTY_START == 61397

WInit ==
    /\ w_pc = "start"
    /\ w_exc = "none"
    /\ w_pending = "none"
    /\ t_pc = "none"
    /\ running = FALSE
    /\ stop_requested = FALSE
    /\ interrupted = FALSE
    /\ traversal_exception = FALSE
    /\ encoder_slot_count = 0
    /\ traversal_steps_moved = 0
    /\ encoder_in_gap = FALSE
    /\ filtered_slot_interval_ms = 0
    /\ irq_attached = FALSE
    /\ duty_value = MAX_DUTY
    /\ pwm_duty = MAX_DUTY
    /\ pwm_active = FALSE
    /\ gate_pin = 1
    /\ step_deficit = 0
    /\ slot_fraction = 0
    /\ steps_emitted = 0
    /\ remaining_steps = 0
    /\ fb_index = 0
    /\ fallback_started = FALSE
    /\ now_ms = 0
    /\ last_encoder_irq_ms = 0
    /\ last_encoder_slot_ms = 0
    /\ ms_since_irq_stamp = 0
    /\ irq_outcome = "none"
    /\ inactive_since_slot = FALSE
    /\ pulses_since_yield = 0

\* No plan has been asked for.
PInit ==
    /\ plan_pc = "idle"
    /\ plan_exc = "none"
    /\ plan_caller = "none"
    /\ total_turns = 0
    /\ spool_width_mm = 0
    /\ wire_diameter_mm = 0
    /\ odd_steps = 0
    /\ even_steps = 0
    /\ layers = <<>>
    /\ remaining_turns = 0
    /\ layer_num = 0

\* No pulse has been emitted; step_interval_us is not bound before line 253.
PaceInit ==
    /\ step_interval_us = STEPPER_DELAY_MS * 1000
    /\ next_step_lag_us = 0
    /\ us_since_pulse = STEPPER_MIN_INTERVAL_US
    /\ pulse_gap_us = STEPPER_MIN_INTERVAL_US
    /\ last_slots = 0
    /\ control_elapsed_ms = 0
    /\ error_times_kp = <<0, 1>>
    /\ control_ticks = 0
    /\ watch_pc = "idle"
    /\ accepted_steps = 0
    /\ sensor_level = 1        \* the inactive level
    /\ ms_since_edge = 0
    /\ ms_since_accept = 0
    /\ last_interval_ms = 0
    /\ min_interval_ms = 0
    /\ max_interval_ms = 0
    /\ drdy_flag = "none"
    /\ drdy_irq_count = 0
    /\ drdy_rising_count = 0
    /\ drdy_falling_count = 0
    /\ drdy_schedule_drop_count = 0
    /\ scheduled = 0
    /\ drdy_irq_signalled = FALSE
    /\ current_layer = 1
    /\ current_wire = 0
    /\ current_slot = 0
    /\ current_direction = 1
    /\ layer_complete = FALSE
    /\ all_layers_complete = FALSE
    /\ layer_announced = TRUE
    /\ total_steps_queued = 0
    /\ trigger_result = "none"
    /\ trigger_rejected = FALSE
    /\ spindle_current = 0
    /\ spindle_target = 0
    /\ spindle_ramp_rate = -1     \* None (line 15)
    /\ spindle_duty = 0
    /\ single_floats = FALSE
    /\ speed_changes = 0

Init == QInit /\ HInit /\ WInit /\ PInit /\ PaceInit

Next ==
    \/ EQ_CheckExecuting("proc")
    \/ EAQ_CheckQueue("proc")
    \/ ExecutorStep("proc")
    \/ ApiQueueStep
    \/ CQ_While("api")
    \/ CQ_Pop("api")
    \/ ResetStepCount("api")

Spec == Init /\ [][Next]_vars

TwoQueueStep ==
    /\ accepted < TwoMaxAccepted
    /\ \E s \in StepChoices, d \in DirChoices : QueueStep("api", s, d)

\* SpecFault: the queue-processor thread drains and a step() of it may
\* raise; the control surface queues, clears and resets.
NextFault ==
    \/ EQ_CheckExecuting("proc")
    \/ EAQ_CheckQueue("proc")
    \/ ExecutorStep("proc")
    \/ StepRaise("proc")
    \/ TwoQueueStep
    \/ CQ_While("api")
    \/ CQ_Pop("api")
    \/ ResetStepCount("api")

SpecFault == Init /\ [][NextFault]_vars

\* SpecTwoDrain: two contexts that both call the executor methods on the
\* same motor, while the control surface queues moves between its calls.
NextTwoDrain ==
    \/ \E c \in Ctx : EQ_CheckExecuting(c)
    \/ \E c \in Ctx : EAQ_CheckQueue(c)
    \/ \E c \in Ctx : ExecutorStep(c)
    \/ TwoQueueStep

SpecTwoDrain == Init /\ [][NextTwoDrain]_vars

\* ------------------------------------------- queueing and waiting
\* The arrangement of test_timed_rotation.py and test_winder_coordination.py:
\* a queue-processor thread that drains, and the main thread that queues
\* commands and waits for the queue to be empty and the flag to be down.

\* queue_processor (test_timed_rotation.py lines 30-37): one pass that
\* finds work and enters execute_all_queued.
ProcessorPoll ==
    /\ Len(command_queue) > 0
    /\ ~is_executing
    /\ EAQ_CheckQueue("proc")

\* The main thread queues a command (test_timed_rotation.py line 58).
WatchQueueStep ==
    /\ accepted < TwoMaxAccepted
    /\ \E s \in StepChoices, d \in DirChoices :
         /\ QueueStepBody("api", s, d)
         /\ accepted_steps' =
              IF QueueIsFull(command_queue) THEN accepted_steps
              ELSE accepted_steps + Abs(s)
    /\ watch_pc' = "idle"
    /\ UNCHANGED <<svars, hvars, wvars, pvars, pulse_vars, speed_vars, edge_vars, unit_vars>>

\* The wait loop (test_timed_rotation.py lines 69-70): queue_length() is
\* read first; after a read that keeps the loop going the thread sleeps and
\* starts over.
WatchReadQueue ==
    /\ watch_pc = "idle"
    /\ pc["api"] = "idle"
    /\ watch_pc' = IF Len(command_queue) > 0 THEN "idle" ELSE "seen_empty"
    /\ UNCHANGED <<accepted_steps, pulse_vars, speed_vars, edge_vars, unit_vars, qvars, svars, hvars,
                   wvars, pvars>>

\* Then is_executing_now(); with both down the loop is left.
WatchReadFlag ==
    /\ watch_pc = "seen_empty"
    /\ watch_pc' = IF is_executing THEN "idle" ELSE "quiet"
    /\ UNCHANGED <<accepted_steps, pulse_vars, speed_vars, edge_vars, unit_vars, qvars, svars, hvars,
                   wvars, pvars>>

NextQuiet ==
    \/ ProcessorPoll
    \/ StepPulse("proc")
    \/ StepLoadTotal("proc")
    \/ StepStoreTotal("proc")
    \/ EAQ_SetFlag("proc")
    \/ EAQ_While("proc")
    \/ EAQ_Pop("proc")
    \/ EAQ_Finally("proc")
    \/ EAQ_Check1("proc")
    \/ EAQ_Check2("proc")
    \/ WatchQueueStep
    \/ WatchReadQueue
    \/ WatchReadFlag

SpecQuiet == Init /\ [][NextQuiet]_vars

\* _queue_processor_thread (microdotwifiserver.py lines 82-94): the steps
\* of the thread that polls the queue and drains it.  The thread is a
\* scheduled thread of its own, so a step of it that stays possible is
\* eventually taken.
QueueProcessor ==
    \/ ProcessorPoll
    \/ StepPulse("proc")
    \/ StepLoadTotal("proc")
    \/ StepStoreTotal("proc")
    \/ EAQ_SetFlag("proc")
    \/ EAQ_While("proc")
    \/ EAQ_Pop("proc")
    \/ EAQ_Finally("proc")
    \/ EAQ_Check1("proc")
    \/ EAQ_Check2("proc")

SpecLive == Init /\ [][NextQuiet]_vars /\ WF_vars(QueueProcessor)

\* ------------------------------------------- whole calls, one caller
\* step(steps, direction, delay, release_after=False) run to its end from
\* phase index cur with coil outputs p: abs(steps) pulses.
RECURSIVE PulseLoop(_, _, _, _)
PulseLoop(n, direction, cur, p) ==
    IF n = 0 THEN [cur |-> cur, pins |-> p]
    ELSE PulseLoop(n - 1, direction,
                   (cur + direction) % Len(FULL_STEP_SEQUENCE),
                   FULL_STEP_SEQUENCE[cur + 1])

\* The motor after the whole `while self.command_queue` loop of
\* execute_all_queued ran on queue q with nobody else touching the motor.
RECURSIVE DrainLoop(_, _, _, _)
DrainLoop(q, cur, p, total) ==
    IF q = <<>> THEN [cur |-> cur, pins |-> p, total |-> total]
    ELSE LET cmd == Popleft(q).item
             r == PulseLoop(Abs(cmd.steps), cmd.direction, cur, p)
         IN DrainLoop(Popleft(q).rest, r.cur, r.pins, NewTotal(total, cmd.steps))

CapIdle == \A c \in Ctx : pc[c] = "idle"

CapCall(name, r) ==
    /\ op' = [op EXCEPT !["api"] = name]
    /\ ret' = [ret EXCEPT !["api"] = r]
    /\ UNCHANGED <<pc, command, pulses_left, loaded_total, exc, executed,
                   cleared, call_total0, call_accepted0, call_sum, call_pulses,
                   call_reset, chk1, chk2>>

\* The n-th command of the caller's loop: the direction alternates
\* (test_timed_rotation.py), the magnitude is 1 or 2.
CapSteps(n) == 1 + (n % 2)
CapDirection(n) == IF n % 2 = 0 THEN 1 ELSE -1

CapQueueStep ==
    /\ CapIdle
    /\ accepted < CapMaxAccepted
    /\ QueueStep("api", CapSteps(accepted), CapDirection(accepted))

\* execute_queue(), start to end.
CapExecuteQueue ==
    /\ CapIdle
    /\ IF is_executing \/ command_queue = <<>>
       THEN /\ CapCall("execute_queue", "False")
            /\ UNCHANGED <<motor, accepted>>
       ELSE LET cmd == Popleft(command_queue).item
                r == PulseLoop(Abs(cmd.steps), cmd.direction, current_step, pins)
            IN /\ NewTotal(total_steps, cmd.steps) <= CapMaxTotal
               /\ command_queue' = Popleft(command_queue).rest
               /\ current_step' = r.cur
               /\ pins' = r.pins
               /\ total_steps' = NewTotal(total_steps, cmd.steps)
               /\ is_executing' = FALSE
               /\ CapCall("execute_queue", "True")
               /\ UNCHANGED accepted
    /\ UNCHANGED notqueue

\* execute_all_queued(), start to end: the drain leaves the queue empty, it
\* is still empty after the sleep, and the coils are released.
CapExecuteAllQueued ==
    /\ CapIdle
    /\ CapCall("execute_all_queued", "none")
    /\ IF command_queue = <<>>
       THEN UNCHANGED <<motor, accepted>>
       ELSE LET r == DrainLoop(command_queue, current_step, pins, total_steps)
            IN \* every queued command has at least one step, so a queue
               \* longer than the cap cannot stay under it
               /\ total_steps + Len(command_queue) <= CapMaxTotal
               /\ r.total <= CapMaxTotal
               /\ command_queue' = <<>>
               /\ current_step' = r.cur
               /\ total_steps' = r.total
               /\ is_executing' = FALSE
               /\ pins' = ReleaseIfStillEmpty(TRUE)
               /\ UNCHANGED accepted
    /\ UNCHANGED notqueue

\* clear_queue(), start to end.
CapClearQueue ==
    /\ CapIdle
    /\ CapCall("clear_queue", "none")
    /\ command_queue' = <<>>
    /\ UNCHANGED <<is_executing, total_steps, current_step, pins, accepted>>
    /\ UNCHANGED notqueue

NextCap ==
    \/ CapQueueStep
    \/ CapExecuteQueue
    \/ CapExecuteAllQueued
    \/ CapClearQueue

SpecCap == Init /\ [][NextCap]_vars

\* ====================================================== Part 2: homing
\* home_traversal_guide runs as the only task of its event loop.  Each
\* action below runs the coroutine from one point to the next sensor read
\* or suspension point.  The inside sensor is an input: every read may
\* return either level.  A cancellation (KeyboardInterrupt or
\* CancelledError) is delivered at a suspension point of the coroutine.

\* Step budgets of the routine and the pulse count between two yields of
\* step_motor, scaled down (25, 20000, 200 and 32 in the program) in the
\* program's order: chunk < yield period < backoff < maximum.  As in the
\* program, a chunk and a single refine step end before step_motor's first
\* yield, and the backoff move yields on its way.
HOMING_CHUNK_STEPS == 2
HOMING_MAX_STEPS == 5
HOMING_BACKOFF_STEPS == 4
StepsPerYield == 3

\* The value the finally clause assigns to stepper.enabled (line 182),
\* whatever the way the try block was left.
OnlyAfterSuccess(outcome) == outcome # "ok"
FinallyEnabled(outcome) == FALSE

\* Leaving the try block (lines 181-182): the finally clause, then the
\* return or the propagation of the exception.
HomeExit(outcome) ==
    /\ stepper_enabled' = FinallyEnabled(outcome)
    /\ en_pin' = EnLevel(FinallyEnabled(outcome))
    /\ h_pc' = IF outcome = "ok" THEN "returned" ELSE "raised"
    /\ h_exc' = outcome

seek_locals == <<already_home, steps_taken, sk_phase, sk_steps,
                 refine_steps_primary, refine_steps_fallback,
                 recovery_steps_ccw, recovery_steps_cw>>
sm_locals == <<sm_steps, sm_index, sm_return, h_pulses>>

\* The pulse index at which step_motor next suspends or ends: it yields
\* after every StepsPerYield-th pulse (nema17.py line 65).
NextStop(index, steps) == Min(((index \div StepsPerYield) + 1) * StepsPerYield, steps)
YieldsAt(stop) == stop % StepsPerYield = 0

\* step_motor's pulse loop from pulse `index` on (lines 59-66), up to its
\* next suspension point or its end.
SmRunFrom(index, steps, back) ==
    LET stop == NextStop(index, steps) IN
    /\ sm_index' = stop
    /\ h_pulses' = h_pulses + (stop - index)
    /\ sm_steps' = steps
    /\ sm_return' = back
    /\ h_pc' = IF YieldsAt(stop) THEN "sm_yield" ELSE "sm_end"

\* await stepper.step_motor(steps, delay) up to its first suspension point
\* (nema17.py lines 44-57).
CallStepMotor(steps, back, settle) ==
    IF ~stepper_enabled
    THEN /\ HomeExit("MotorNotEnabled")
         /\ dir_needs_settle' = settle
         /\ UNCHANGED sm_locals
    ELSE /\ UNCHANGED <<stepper_enabled, en_pin, h_exc>>
         /\ IF steps <= 0
            THEN /\ h_pc' = "sm_end"
                 /\ sm_steps' = steps /\ sm_index' = 0 /\ sm_return' = back
                 /\ dir_needs_settle' = settle
                 /\ UNCHANGED h_pulses
            ELSE IF settle
            THEN /\ h_pc' = "sm_settle"
                 /\ sm_steps' = steps /\ sm_index' = 0 /\ sm_return' = back
                 /\ dir_needs_settle' = settle
                 /\ UNCHANGED h_pulses
            ELSE /\ SmRunFrom(0, steps, back)
                 /\ dir_needs_settle' = settle

\* home_traversal_guide lines 56-73: construct the driver disabled, read
\* the sensor, enable, select counter-clockwise, enter the try block.
HomeStart ==
    /\ h_pc = "start"
    /\ \E v \in SensorLevels :
         /\ sensor_read' = v
         /\ already_home' = (v = 0)
         /\ h_pc' = IF v = 0 THEN "backoff" ELSE "seek_test"
    /\ stepper_enabled' = TRUE
    /\ en_pin' = EnLevel(TRUE)
    /\ dir_pin' = DirLevel(COUNTERCLOCKWISE)
    /\ dir_needs_settle' = TRUE
    /\ steps_taken' = 0
    /\ UNCHANGED <<h_exc, sk_phase, sk_steps, refine_steps_primary,
                   refine_steps_fallback, recovery_steps_ccw,
                   recovery_steps_cw, sm_locals, qvars, wvars, pvars, pace_vars>>

\* Line 74: the condition of the chunked seek loop.
SeekIgnoresSensor(v, taken) == taken < HOMING_MAX_STEPS
SeekGoesOn(v, taken) == v # 0 /\ taken < HOMING_MAX_STEPS

\* Line 74: the condition of the chunked seek loop, and lines 75-77 when
\* it holds.
HomeSeekTest ==
    /\ h_pc = "seek_test"
    /\ \E v \in SensorLevels :
         (sensor_read' = v) /\
         IF SeekGoesOn(v, steps_taken)
         THEN CallStepMotor(Min(HOMING_CHUNK_STEPS, HOMING_MAX_STEPS - steps_taken),
                            "seek", dir_needs_settle)
         ELSE /\ h_pc' = "seek_check"
              /\ UNCHANGED <<stepper_enabled, en_pin, dir_needs_settle,
                             h_exc, sm_locals>>
    /\ UNCHANGED <<dir_pin, seek_locals, qvars, wvars, pvars, pace_vars>>

\* Lines 80-84: after the loop, a sensor that is still inactive is the
\* timeout.
HomeSeekCheck ==
    /\ h_pc = "seek_check"
    /\ \E v \in SensorLevels :
         (sensor_read' = v) /\
         IF v # 0
         THEN HomeExit("RuntimeError")
         ELSE /\ h_pc' = "backoff"
              /\ UNCHANGED <<stepper_enabled, en_pin, h_exc>>
    /\ UNCHANGED <<dir_pin, dir_needs_settle, seek_locals, sm_locals, qvars, wvars, pvars, pace_vars>>

\* Lines 86-88: turn clockwise and back off.
HomeBackoff ==
    /\ h_pc = "backoff"
    /\ dir_pin' = DirLevel(CLOCKWISE)
    /\ CallStepMotor(HOMING_BACKOFF_STEPS, "backoff", TRUE)
    /\ UNCHANGED <<sensor_read, seek_locals, qvars, wvars, pvars, pace_vars>>

\* seek_home's arguments in its four calls (lines 104-135).
SeekDirection(phase) ==
    IF phase \in {"primary", "recovery_ccw"} THEN COUNTERCLOCKWISE ELSE CLOCKWISE
SeekFullBudget(phase) == HOMING_MAX_STEPS
SeekOverBudget(phase) == HOMING_MAX_STEPS + HOMING_BACKOFF_STEPS
SeekMaxSteps(phase) ==
    CASE phase = "primary"  -> HOMING_BACKOFF_STEPS
      [] phase = "fallback" -> HOMING_BACKOFF_STEPS * 2
      [] OTHER              -> HOMING_MAX_STEPS

\* seek_home lines 93-94: select the direction, steps = 0.
CallSeekHome(phase) ==
    /\ sk_phase' = phase
    /\ sk_steps' = 0
    /\ dir_pin' = DirLevel(SeekDirection(phase))
    /\ dir_needs_settle' = TRUE
    /\ h_pc' = "sk_test"

\* `return steps` of seek_home and the assignment of its result.
ReturnSeekHome(steps) ==
    /\ h_pc' = CASE sk_phase = "primary"      -> "after_primary"
                [] sk_phase = "fallback"     -> "refined"
                [] sk_phase = "recovery_ccw" -> "after_recovery_ccw"
                [] OTHER                     -> "after_recovery_cw"
    /\ refine_steps_primary' =
         IF sk_phase = "primary" THEN steps ELSE refine_steps_primary
    /\ refine_steps_fallback' =
         IF sk_phase = "fallback" THEN steps ELSE refine_steps_fallback
    /\ recovery_steps_ccw' =
         IF sk_phase = "recovery_ccw" THEN steps ELSE recovery_steps_ccw
    /\ recovery_steps_cw' =
         IF sk_phase = "recovery_cw" THEN steps ELSE recovery_steps_cw

\* seek_home lines 95-98: the loop condition, the sensor read before the
\* step, and the call of step_motor(1).
SeekHomeTest ==
    /\ h_pc = "sk_test"
    /\ IF sk_steps < SeekMaxSteps(sk_phase)
       THEN \E v \in SensorLevels :
              (sensor_read' = v) /\
              IF v = 0
              THEN /\ ReturnSeekHome(sk_steps)
                   /\ UNCHANGED <<stepper_enabled, en_pin, dir_needs_settle,
                                  h_exc, sm_locals>>
              ELSE /\ CallStepMotor(1, "seek_home", dir_needs_settle)
                   /\ UNCHANGED <<refine_steps_primary, refine_steps_fallback,
                                  recovery_steps_ccw, recovery_steps_cw>>
       ELSE /\ ReturnSeekHome(sk_steps)
            /\ UNCHANGED <<stepper_enabled, en_pin, dir_needs_settle,
                           h_exc, sm_locals, sensor_read>>
    /\ UNCHANGED <<dir_pin, already_home, steps_taken, sk_phase, sk_steps, qvars, wvars, pvars, pace_vars>>

\* nema17.py lines 55-57: the direction has settled; the pulse loop starts.
StepMotorSettled ==
    /\ h_pc = "sm_settle"
    /\ dir_needs_settle' = FALSE
    /\ SmRunFrom(0, sm_steps, sm_return)
    /\ UNCHANGED <<sensor_read, stepper_enabled, en_pin, dir_pin, h_exc, seek_locals, qvars, wvars, pvars, pace_vars>>

\* nema17.py line 66 resumed: the pulse loop goes on.
StepMotorResume ==
    /\ h_pc = "sm_yield"
    /\ IF sm_index < sm_steps
       THEN SmRunFrom(sm_index, sm_steps, sm_return)
       ELSE h_pc' = "sm_end" /\ UNCHANGED sm_locals
    /\ UNCHANGED <<sensor_read, svars, h_exc, seek_locals, qvars, wvars, pvars, pace_vars>>

\* step_motor returns to the chunked seek loop: line 78.
ReturnToSeek ==
    /\ h_pc = "sm_end" /\ sm_return = "seek"
    /\ steps_taken' = steps_taken + sm_steps
    /\ h_pc' = "seek_test"
    /\ UNCHANGED <<sensor_read, svars, h_exc, already_home, sk_phase, sk_steps,
                   refine_steps_primary, refine_steps_fallback,
                   recovery_steps_ccw, recovery_steps_cw, sm_locals, qvars, wvars, pvars, pace_vars>>

\* step_motor returns from the backoff: lines 104-108 call seek_home.
ReturnToBackoff ==
    /\ h_pc = "sm_end" /\ sm_return = "backoff"
    /\ CallSeekHome("primary")
    /\ UNCHANGED <<sensor_read, stepper_enabled, en_pin, h_exc, already_home, steps_taken,
                   refine_steps_primary, refine_steps_fallback,
                   recovery_steps_ccw, recovery_steps_cw, sm_locals, qvars, wvars, pvars, pace_vars>>

\* step_motor returns to seek_home: lines 99-101.
ReturnToSeekHome ==
    /\ h_pc = "sm_end" /\ sm_return = "seek_home"
    /\ sk_steps' = sk_steps + 1
    /\ \E v \in SensorLevels :
         (sensor_read' = v) /\
         IF v = 0
         THEN ReturnSeekHome(sk_steps + 1)
         ELSE /\ h_pc' = "sk_test"
              /\ UNCHANGED <<refine_steps_primary, refine_steps_fallback,
                             recovery_steps_ccw, recovery_steps_cw>>
    /\ UNCHANGED <<svars, h_exc, already_home, steps_taken, sk_phase,
                   sm_locals, qvars, wvars, pvars, pace_vars>>

\* Lines 109-117: after the primary refine, try the opposite direction
\* when the sensor is inactive.
HomeAfterPrimary ==
    /\ h_pc = "after_primary"
    /\ refine_steps_fallback' = 0
    /\ \E v \in SensorLevels :
         (sensor_read' = v) /\
         IF v # 0
         THEN CallSeekHome("fallback")
         ELSE /\ h_pc' = "refined"
              /\ UNCHANGED <<sk_phase, sk_steps, dir_pin, dir_needs_settle>>
    /\ UNCHANGED <<stepper_enabled, en_pin, h_exc, already_home, steps_taken,
                   refine_steps_primary, recovery_steps_ccw, recovery_steps_cw,
                   sm_locals, qvars, wvars, pvars, pace_vars>>

\* Line 121: the sensor value that starts the recovery search.
RecoveryNever(v) == FALSE
RecoveryAlways(v) == TRUE
RecoveryNeeded(v) == v # 0

\* Lines 119-127 and 156-182: after the refine pass, either the recovery
\* search starts or the routine reports and returns.
HomeRefined ==
    /\ h_pc = "refined"
    /\ \E v \in SensorLevels :
         (sensor_read' = v) /\
         IF RecoveryNeeded(v)
         THEN /\ CallSeekHome("recovery_ccw")
              /\ UNCHANGED <<stepper_enabled, en_pin, h_exc>>
         ELSE /\ HomeExit("ok")
              /\ UNCHANGED <<sk_phase, sk_steps, dir_pin, dir_needs_settle>>
    /\ UNCHANGED <<already_home, steps_taken, refine_steps_primary,
                   refine_steps_fallback, recovery_steps_ccw, recovery_steps_cw,
                   sm_locals, qvars, wvars, pvars, pace_vars>>

\* Lines 128-135: after the counter-clockwise recovery search.
HomeAfterRecoveryCcw ==
    /\ h_pc = "after_recovery_ccw"
    /\ recovery_steps_cw' = 0
    /\ \E v \in SensorLevels :
         (sensor_read' = v) /\
         IF v # 0
         THEN CallSeekHome("recovery_cw")
         ELSE /\ h_pc' = "after_recovery_cw"
              /\ UNCHANGED <<sk_phase, sk_steps, dir_pin, dir_needs_settle>>
    /\ UNCHANGED <<stepper_enabled, en_pin, h_exc, already_home, steps_taken,
                   refine_steps_primary, refine_steps_fallback,
                   recovery_steps_ccw, sm_locals, qvars, wvars, pvars, pace_vars>>

\* Lines 137-182: the last sensor read decides between the RuntimeError
\* and the report; both leave through the finally clause.
HomeAfterRecoveryCw ==
    /\ h_pc = "after_recovery_cw"
    /\ \E v \in SensorLevels :
         (sensor_read' = v) /\
         IF v # 0 THEN HomeExit("RuntimeError") ELSE HomeExit("ok")
    /\ UNCHANGED <<dir_pin, dir_needs_settle, seek_locals, sm_locals, qvars, wvars, pvars, pace_vars>>

\* The suspension points of the routine: the awaits inside step_motor
\* (nema17.py lines 56 and 66), all of them inside the try block.
HomeSuspended == h_pc \in {"sm_settle", "sm_yield"}

\* A cancellation raised at a suspension point propagates through
\* step_motor and seek_home to the finally clause.
HomeCancel ==
    /\ HomeSuspended
    /\ HomeExit("Cancelled")
    /\ UNCHANGED <<sensor_read, dir_pin, dir_needs_settle, seek_locals, sm_locals, qvars, wvars, pvars, pace_vars>>

NextHome ==
    \/ HomeStart
    \/ HomeSeekTest
    \/ HomeSeekCheck
    \/ HomeBackoff
    \/ SeekHomeTest
    \/ StepMotorSettled
    \/ StepMotorResume
    \/ ReturnToSeek
    \/ ReturnToBackoff
    \/ ReturnToSeekHome
    \/ HomeAfterPrimary
    \/ HomeRefined
    \/ HomeAfterRecoveryCcw
    \/ HomeAfterRecoveryCw
    \/ HomeCancel

SpecHome == Init /\ [][NextHome]_vars

\* The event loop runs the routine as its only task: each await of
\* step_motor is a sleep that ends, so the coroutine is resumed whenever it
\* can go on.
SpecHomeRuns == Init /\ [][NextHome]_vars /\ WF_vars(NextHome)

\* ====================================================== Part 3: winding
\* wind_first_layer and its traversal task are two coroutines of one event
\* loop: a coroutine keeps the processor from one await to the next, and
\* the encoder interrupt handler runs between any two steps while it is
\* attached.  Clock readings are inputs: whether a debounce window, a
\* pulse time or the catch-up deadline has passed is chosen freely.

\* The layer of the winding plan, scaled down (layers[0] of
\* winding_plan_from_awg gives thousands of steps and slots), and the
\* number of slots the encoder may count past the target before the
\* handler is detached.
first_layer_steps == 5
target_encoder_slots == 3
MaxOvershoot == 1

ENCODER_ACTIVE_LEVEL == 0
EncoderLevels == {0, 1}
SlotIntervalChoices == {0, 4, 8}      \* slot_interval_ms
FractionChoices == {0, 50, 98, 150}   \* elapsed / filtered interval, in hundredths
DutyAdjustChoices == {-70000, 70000}  \* int(speed_error_cpm * kp)

enc_vars == <<encoder_slot_count, encoder_in_gap, filtered_slot_interval_ms>>
trav_locals == <<step_deficit, slot_fraction, steps_emitted, pulses_since_yield>>
fb_vars == <<remaining_steps, fb_index, fallback_started>>
flags == <<running, stop_requested, interrupted, traversal_exception>>
stamp_vars == <<now_ms, last_encoder_irq_ms, last_encoder_slot_ms,
                ms_since_irq_stamp, irq_outcome, inactive_since_slot>>

\* clamp_duty_value (lines 192-193).
clamp_duty_value(d) ==
    IF d < 0 THEN 0 ELSE IF d > MAX_DUTY THEN MAX_DUTY ELSE d

\* encoder_irq lines 213-217: the interval filter.
UnfilteredInterval(filtered, slot_interval_ms) == slot_interval_ms
FilteredInterval(filtered, slot_interval_ms) ==
    IF slot_interval_ms > 0
    THEN IF filtered <= 0 THEN slot_interval_ms
         ELSE ((filtered * 3) + slot_interval_ms) \div 4
    ELSE filtered

\* Line 219: the count that requests the stop.
TargetPassed(count) == count > target_encoder_slots
TargetReached(count) == count >= target_encoder_slots

\* encoder_irq (lines 195-222), a hard interrupt handler: `bounce` is the
\* outcome of the debounce test, sensor_value what pin.value() returns and
\* slot_interval_ms the ticks_diff of line 211.
EncoderIrqGets(bounce, sensor_value, slot_interval_ms) ==
    /\ irq_attached
    /\ encoder_slot_count < target_encoder_slots + MaxOvershoot
    /\   IF bounce
         THEN UNCHANGED <<enc_vars, stop_requested>>
         ELSE IF sensor_value = ENCODER_ACTIVE_LEVEL
         THEN IF ~encoder_in_gap
              THEN /\ encoder_in_gap' = TRUE
                   /\ filtered_slot_interval_ms' =
                        FilteredInterval(filtered_slot_interval_ms, slot_interval_ms)
                   /\ encoder_slot_count' = encoder_slot_count + 1
                   /\ stop_requested' =
                        (stop_requested \/ TargetReached(encoder_slot_count + 1))
              ELSE UNCHANGED <<enc_vars, stop_requested>>
         ELSE /\ encoder_in_gap' = FALSE
              /\ UNCHANGED <<encoder_slot_count, filtered_slot_interval_ms,
                             stop_requested>>
    /\ UNCHANGED <<w_pc, w_exc, w_pending, t_pc, running, interrupted,
                   traversal_exception, traversal_steps_moved, irq_attached,
                   duty_value, pwm_duty, pwm_active, gate_pin, trav_locals,
                   fb_vars, svars, qvars, hvars, stamp_vars, pvars>>

encoder_irq ==
    /\ \E bounce \in BOOLEAN, sensor_value \in EncoderLevels,
          slot_interval_ms \in SlotIntervalChoices :
         EncoderIrqGets(bounce, sensor_value, slot_interval_ms)
    /\ UNCHANGED pace_vars

\* ------------------------------------------------------ traversal task
MainSuspended == {"loop_sleep", "catchup_sleep", "await_trav"}
TravFinished == {"done", "failed"}
TravRunning == {"loop", "pulse"}

\* Lines 238-240: the extrapolation is capped at 0.98 of a slot.
CappedFraction(fraction) == IF fraction > 98 THEN 98 ELSE fraction

\* Relative precision of the floating-point sum, product and quotient of
\* line 242 (one part in FLOAT_PRECISION), scaled with the step counts.
FLOAT_PRECISION == 128
FloatErrors == {-1, 0, 1}

\* Line 242.  The program computes
\*   int((effective_encoder_slots * first_layer_steps) / target_encoder_slots)
\* in single-precision floating point: when the exact quotient is a whole
\* number the rounded one may fall just below it, and int() then gives one
\* less (float_error = 1); when the exact quotient lies below a whole
\* number by less than the rounding error, the rounded one may be that
\* whole number, and int() gives one more (float_error = -1).  effective
\* is in hundredths of a slot.
UncappedTarget(effective, float_error) ==
    LET num == effective * first_layer_steps
        den == target_encoder_slots * 100
        q   == num \div den
        rem == num % den
    IN IF rem = 0 /\ q > 0 /\ float_error = 1 THEN q - 1
       ELSE IF rem # 0 /\ float_error = -1
               /\ (den - rem) * FLOAT_PRECISION <= num THEN q + 1
       ELSE q

\* Lines 242-244: the proportional target, capped at the layer's steps.
ProportionalTarget(effective, float_error) ==
    LET t == UncappedTarget(effective, float_error)
    IN IF t > first_layer_steps THEN first_layer_steps ELSE t

\* Line 265: the condition of the pulse loop.
PulseAllowed(deficit, due, emitted) == deficit > 0 /\ due /\ emitted < 4

\* The scheduler starts the task: lines 227-229.
TravStart ==
    /\ t_pc = "created"
    /\ w_pc \in MainSuspended
    /\ stepper_enabled' = TRUE
    /\ en_pin' = EnLevel(TRUE)
    /\ t_pc' = "init_sleep"
    /\ UNCHANGED <<w_pc, w_exc, w_pending, flags, enc_vars,
                   traversal_steps_moved, irq_attached, duty_value, pwm_duty,
                   pwm_active, gate_pin, trav_locals, fb_vars, dir_pin,
                   dir_needs_settle, qvars, hvars, stamp_vars, pvars, pace_vars>>

\* Line 280 and the end of the coroutine.
TravExit ==
    /\ stepper_enabled' = FALSE
    /\ en_pin' = EnLevel(FALSE)
    /\ t_pc' = "done"

\* One evaluation of the outer loop, lines 232-264, up to the pulse loop,
\* the yield of line 250 or the end of the task.
TravLoopTop ==
    /\ \/ t_pc \in {"init_sleep", "yielded"} /\ w_pc \in MainSuspended
       \/ t_pc = "loop"
    /\ IF ~(running \/ traversal_steps_moved < first_layer_steps)
       THEN TravExit /\ UNCHANGED trav_locals
       ELSE \E fraction \in FractionChoices, float_error \in FloatErrors :
              LET added ==
                      IF running /\ encoder_slot_count < target_encoder_slots
                            /\ filtered_slot_interval_ms > 0
                      THEN CappedFraction(fraction) ELSE 0
                  effective == encoder_slot_count * 100 + added
                  deficit == ProportionalTarget(effective, float_error)
                             - traversal_steps_moved
              IN /\ step_deficit' = deficit
                 /\ slot_fraction' = added
                 /\ IF deficit <= 0
                    THEN IF ~running
                         THEN TravExit /\ UNCHANGED <<steps_emitted, pulses_since_yield>>
                         ELSE /\ t_pc' = "yielded"
                              /\ pulses_since_yield' = 0
                              /\ UNCHANGED <<stepper_enabled, en_pin, steps_emitted>>
                    ELSE /\ t_pc' = "pulse"
                         /\ steps_emitted' = 0
                         /\ UNCHANGED <<stepper_enabled, en_pin, pulses_since_yield>>
    /\ UNCHANGED <<w_pc, w_exc, w_pending, flags, enc_vars,
                   traversal_steps_moved, irq_attached, duty_value, pwm_duty,
                   pwm_active, gate_pin, fb_vars, dir_pin, dir_needs_settle,
                   qvars, hvars, stamp_vars, pvars>>

\* The same with the time of a pulse left open.
TravIterate == TravLoopTop /\ UNCHANGED pace_vars

\* One pulse of the inner loop, lines 265-275; `due` is the test
\* time.ticks_diff(now_us, next_step_us) >= 0.
TravPulseWhen(due) ==
    /\ t_pc = "pulse"
    /\ PulseAllowed(step_deficit, due, steps_emitted)
    /\ traversal_steps_moved' = traversal_steps_moved + 1
    /\ step_deficit' = step_deficit - 1
    /\ steps_emitted' = steps_emitted + 1
    /\ pulses_since_yield' = pulses_since_yield + 1
    /\ UNCHANGED <<w_pc, w_exc, w_pending, t_pc, flags, enc_vars, irq_attached,
                   duty_value, pwm_duty, pwm_active, gate_pin, slot_fraction,
                   fb_vars, svars,
                   qvars, hvars, stamp_vars, pvars>>

TravPulse == (\E due \in BOOLEAN : TravPulseWhen(due)) /\ UNCHANGED pace_vars

\* The inner loop ends, lines 265 and 277-278: the task yields only when
\* the batch emitted nothing.
TravEndBatchWhen(due) ==
    /\ t_pc = "pulse"
    /\ ~PulseAllowed(step_deficit, due, steps_emitted)
    /\ t_pc' = IF steps_emitted = 0 THEN "yielded" ELSE "loop"
    /\ pulses_since_yield' = IF steps_emitted = 0 THEN 0 ELSE pulses_since_yield
    /\ UNCHANGED <<w_pc, w_exc, w_pending, flags, enc_vars,
                   traversal_steps_moved, irq_attached, duty_value, pwm_duty,
                   pwm_active, gate_pin, step_deficit, slot_fraction,
                   steps_emitted, fb_vars, svars,
                   qvars, hvars, stamp_vars, pvars>>

TravEndBatch ==
    (\E due \in BOOLEAN : TravEndBatchWhen(due)) /\ UNCHANGED pace_vars

\* An exception raised inside the traversal task ends it; the task has no
\* handler, so the driver stays as it was.
TravFault ==
    /\ t_pc \in TravRunning
    /\ t_pc' = "failed"
    /\ UNCHANGED <<w_pc, w_exc, w_pending, flags, enc_vars,
                   traversal_steps_moved, irq_attached, duty_value, pwm_duty,
                   pwm_active, gate_pin, trav_locals, fb_vars, svars,
                   qvars, hvars, stamp_vars, pvars, pace_vars>>

\* ------------------------------------------------------ winding coroutine
MainMayRun == t_pc \notin TravRunning

\* Lines 171-297: the spindle PWM and the driver are set up, the encoder
\* handler is attached, the traversal task is created, the start duty is
\* written and the control loop reaches its first sleep.
WindStartAt(level) ==
    /\ w_pc = "start"
    /\ pwm_active' = TRUE
    /\ dir_pin' = DirLevel(CLOCKWISE)
    /\ dir_needs_settle' = TRUE
    /\ stepper_enabled' = FALSE
    /\ en_pin' = EnLevel(FALSE)
    /\ encoder_slot_count' = 0
    /\ traversal_steps_moved' = 0
    /\ filtered_slot_interval_ms' = 0
    /\ encoder_in_gap' = (level = ENCODER_ACTIVE_LEVEL)
    /\ running' = TRUE
    /\ stop_requested' = FALSE
    /\ irq_attached' = TRUE
    /\ t_pc' = "created"
    /\ traversal_exception' = FALSE
    /\ interrupted' = FALSE
    /\ duty_value' = clamp_duty_value(MOTOR_DUTY_START)
    /\ pwm_duty' = clamp_duty_value(MOTOR_DUTY_START)
    /\ w_pc' = "loop_sleep"
    /\ last_encoder_irq_ms' = now_ms
    /\ last_encoder_slot_ms' = now_ms
    /\ ms_since_irq_stamp' = 0
    /\ UNCHANGED <<w_exc, w_pending, gate_pin, trav_locals, fb_vars,
                   qvars, hvars, now_ms, irq_outcome, inactive_since_slot, pvars>>

\* The start with any level of the encoder pin.
WindStart ==
    (\E level \in EncoderLevels : WindStartAt(level)) /\ UNCHANGED pace_vars

\* The finally clause up to its first await, lines 329-341.  The catch-up
\* deadline has just been computed, so its first test cannot fail.
EnterFinally(pending, is_interrupted) ==
    /\ running' = FALSE
    /\ irq_attached' = FALSE
    /\ pwm_duty' = MAX_DUTY
    /\ w_pending' = pending
    /\ w_pc' = IF ~is_interrupted /\ traversal_steps_moved < first_layer_steps
               THEN "catchup_sleep"
               ELSE "await_trav"

\* The control loop resumes from its sleep: lines 299-320 and the loop
\* condition of line 296.  `tick` is the outcome of the test of line 306,
\* `adjust` the value of int(speed_error_cpm * kp) of line 315.
WindLoopBody(tick, adjust) ==
    /\ w_pc = "loop_sleep"
    /\ MainMayRun
    /\ IF t_pc = "failed"
       THEN /\ traversal_exception' = TRUE
            /\ EnterFinally("Fault", FALSE)
            /\ UNCHANGED duty_value
       ELSE   LET duty == IF tick THEN clamp_duty_value(duty_value - adjust)
                          ELSE duty_value
              IN /\ traversal_exception' = FALSE
                 /\ duty_value' = duty
                 /\ IF stop_requested
                    THEN EnterFinally("none", FALSE)
                    ELSE /\ pwm_duty' = duty
                         /\ UNCHANGED <<running, irq_attached, w_pending, w_pc>>
    /\ UNCHANGED <<w_exc, t_pc, stop_requested, interrupted, enc_vars,
                   traversal_steps_moved, pwm_active, gate_pin, trav_locals,
                   fb_vars, svars, qvars, hvars, stamp_vars, pvars>>

\* The same with the clock and the measured speed left open.
WindLoopResume ==
    /\ \E tick \in BOOLEAN, adjust \in DutyAdjustChoices :
         WindLoopBody(tick, adjust)
    /\ UNCHANGED pace_vars

\* A cancellation delivered at the sleep of the control loop: the except
\* clause, lines 322-326, then the finally clause.
WindCancelInLoop ==
    /\ w_pc = "loop_sleep"
    /\ MainMayRun
    /\ interrupted' = TRUE
    /\ stop_requested' = TRUE
    /\ EnterFinally("Cancelled", TRUE)
    /\ UNCHANGED <<w_exc, t_pc, traversal_exception, enc_vars,
                   traversal_steps_moved, duty_value, pwm_active, gate_pin,
                   trav_locals, fb_vars, svars, qvars, hvars, stamp_vars, pvars, pace_vars>>

\* The catch-up wait, lines 335-338, ends when the traversal has caught up
\* or the deadline has passed.
WindCatchupResume ==
    /\ w_pc = "catchup_sleep"
    /\ MainMayRun
    /\ \E expired \in BOOLEAN :
         traversal_steps_moved >= first_layer_steps \/ expired
    /\ w_pc' = "await_trav"
    /\ UNCHANGED <<w_exc, w_pending, t_pc, flags, enc_vars,
                   traversal_steps_moved, irq_attached, duty_value, pwm_duty,
                   pwm_active, gate_pin, trav_locals, fb_vars, svars,
                   qvars, hvars, stamp_vars, pvars, pace_vars>>

\* Line 347: the condition of the fallback move.
NoFallback(remaining, has_exception, is_interrupted) == FALSE
FallbackNeeded(remaining, has_exception, is_interrupted) ==
    remaining > 0 /\ ~has_exception /\ ~is_interrupted

\* Lines 353-360 and the end of the coroutine: the spindle is switched
\* off for good, the driver is disabled, and the coroutine returns or
\* raises.
Cleanup(has_exception) ==
    /\ pwm_duty' = MAX_DUTY
    /\ pwm_active' = FALSE
    /\ gate_pin' = 1
    /\ stepper_enabled' = FALSE
    /\ en_pin' = EnLevel(FALSE)
    /\ w_exc' = IF has_exception THEN "Fault" ELSE w_pending
    /\ w_pc' = IF has_exception \/ w_pending # "none" THEN "raised" ELSE "returned"

\* `await traversal_task` returns or raises, lines 340-348: either the
\* fallback move starts or the cleanup follows at once.
WindAwaitDone ==
    /\ w_pc = "await_trav"
    /\ t_pc \in TravFinished
    /\ LET has_exception == traversal_exception \/ t_pc = "failed"
           remaining == first_layer_steps - traversal_steps_moved
       IN /\ traversal_exception' = has_exception
          /\ remaining_steps' = remaining
          /\ IF FallbackNeeded(remaining, has_exception, interrupted)
             THEN /\ stepper_enabled' = TRUE
                  /\ en_pin' = EnLevel(TRUE)
                  /\ fallback_started' = TRUE
                  /\ fb_index' = 0
                  /\ w_pc' = IF dir_needs_settle THEN "fallback_settle"
                             ELSE "fallback_run"
                  /\ UNCHANGED <<w_exc, pwm_duty, pwm_active, gate_pin>>
             ELSE /\ Cleanup(has_exception)
                  /\ UNCHANGED <<fb_index, fallback_started>>
    /\ UNCHANGED <<w_pending, t_pc, running, stop_requested, interrupted,
                   enc_vars, traversal_steps_moved, irq_attached, duty_value,
                   trav_locals, dir_pin, dir_needs_settle, qvars, hvars, stamp_vars, pvars, pace_vars>>

\* The fallback move, lines 348-351: step_motor from its sleep or yield to
\* its next one (nema17.py lines 55-66), and when it has returned the rest
\* of the finally clause.
WindFallbackRun ==
    /\ w_pc \in {"fallback_settle", "fallback_yield", "fallback_run"}
    /\ MainMayRun
    /\ dir_needs_settle' = IF w_pc = "fallback_settle" THEN FALSE
                           ELSE dir_needs_settle
    /\ LET stop == NextStop(fb_index, remaining_steps)
       IN IF fb_index < remaining_steps /\ YieldsAt(stop)
          THEN /\ fb_index' = stop
               /\ w_pc' = "fallback_yield"
               /\ UNCHANGED <<w_exc, traversal_steps_moved, pwm_duty,
                              pwm_active, gate_pin, stepper_enabled, en_pin>>
          ELSE /\ fb_index' = remaining_steps
               /\ traversal_steps_moved' = traversal_steps_moved + remaining_steps
               /\ Cleanup(traversal_exception)
    /\ UNCHANGED <<w_pending, t_pc, flags, enc_vars, irq_attached, duty_value,
                   trav_locals, remaining_steps, fallback_started, dir_pin,
                   qvars, hvars, stamp_vars, pvars, pace_vars>>

\* A cancellation delivered at an await of the finally clause (lines 338,
\* 341 and the awaits of the fallback step_motor) leaves the coroutine at
\* once: nothing after the await runs.
WindCancelInCleanup ==
    /\ \/ w_pc \in {"catchup_sleep", "fallback_settle", "fallback_yield"}
       \/ w_pc = "await_trav" /\ t_pc \notin TravFinished
    /\ MainMayRun
    /\ w_pc' = "raised"
    /\ w_exc' = "Cancelled"
    /\ UNCHANGED <<w_pending, t_pc, flags, enc_vars, traversal_steps_moved,
                   irq_attached, duty_value, pwm_duty, pwm_active, gate_pin,
                   trav_locals, fb_vars, svars, qvars, hvars, stamp_vars, pvars, pace_vars>>

\* run_test, lines 375-385: whatever way wind_first_layer ended,
\* emergency_stop_all_motors (lines 71-89) writes the off duty and drives
\* the EN pin high through a new Pin object.
emergency_stop_all_motors ==
    /\ w_pc \in {"returned", "raised"}
    /\ w_pc' = "stopped"
    /\ pwm_active' = TRUE
    /\ pwm_duty' = MAX_DUTY
    /\ en_pin' = 1
    /\ UNCHANGED <<w_exc, w_pending, t_pc, flags, enc_vars,
                   traversal_steps_moved, irq_attached, duty_value, gate_pin,
                   trav_locals, fb_vars, stepper_enabled, dir_pin,
                   dir_needs_settle, qvars, hvars, stamp_vars, pvars, pace_vars>>

NextWind ==
    \/ WindStart
    \/ encoder_irq
    \/ TravStart
    \/ TravIterate
    \/ TravPulse
    \/ TravEndBatch
    \/ TravFault
    \/ WindLoopResume
    \/ WindCancelInLoop
    \/ WindCatchupResume
    \/ WindAwaitDone
    \/ WindFallbackRun
    \/ WindCancelInCleanup
    \/ emergency_stop_all_motors

SpecWind == Init /\ [][NextWind]_vars

\* ------------------------------------------- the time of the pulses
\* The traversal task with the microsecond clock: next_step_us is set once
\* (line 230) and moved only by ticks_add(next_step_us, step_interval_us)
\* (line 274); the model keeps its distance to the clock.
MaxLagUs == 5000                    \* the lag is followed up to this
IdleUsChoices == {2500}             \* time that passes while the task waits
LoopOverheadChoices == {100, 300}   \* lines 265-275 beyond the pulse width

\* Lines 253-256.
RawInterval(filtered) ==
    IF filtered > 0
    THEN (filtered * 1000 * target_encoder_slots) \div first_layer_steps
    ELSE STEPPER_DELAY_MS * 1000

\* Lines 258-261.
ClampInterval(us) ==
    IF us < STEPPER_MIN_INTERVAL_US THEN STEPPER_MIN_INTERVAL_US
    ELSE IF us > STEPPER_MAX_INTERVAL_US THEN STEPPER_MAX_INTERVAL_US
    ELSE us

\* The clock runs while the task is suspended (lines 228, 250 and 278).
TimePasses ==
    /\ t_pc \in {"init_sleep", "yielded"}
    /\ \E idle \in IdleUsChoices :
         /\ next_step_lag_us' = Min(next_step_lag_us + idle, MaxLagUs)
         /\ us_since_pulse' = Min(us_since_pulse + idle, STEPPER_MIN_INTERVAL_US)
    /\ UNCHANGED <<step_interval_us, pulse_gap_us, speed_vars, watch_vars, edge_vars, unit_vars,
                   qvars, svars, hvars, wvars, pvars>>

\* Lines 230-264 with the clock: the first evaluation follows
\* next_step_us = time.ticks_us(); the interval is computed only on the way
\* to the pulse loop.
TravIterateTimed ==
    /\ TravLoopTop
    /\ next_step_lag_us' = IF t_pc = "init_sleep" THEN 0 ELSE next_step_lag_us
    /\ step_interval_us' =
         IF t_pc' = "pulse"
         THEN ClampInterval(RawInterval(filtered_slot_interval_ms))
         ELSE step_interval_us
    /\ UNCHANGED <<us_since_pulse, pulse_gap_us, speed_vars, watch_vars, edge_vars, unit_vars>>

\* Lines 265-275 with the clock: the pulse takes its width and the rest of
\* the loop body, and the deadline moves by one interval from where it was.
TravPulseTimed ==
    /\ TravPulseWhen(next_step_lag_us >= 0)
    /\ \E overhead \in LoopOverheadChoices :
         LET elapsed == STEPPER_PULSE_WIDTH_US + overhead
         IN /\ pulse_gap_us' = us_since_pulse
            /\ us_since_pulse' = Min(elapsed, STEPPER_MIN_INTERVAL_US)
            /\ next_step_lag_us' = next_step_lag_us + elapsed - step_interval_us
    /\ UNCHANGED <<step_interval_us, speed_vars, watch_vars, edge_vars, unit_vars>>

TravEndBatchTimed ==
    /\ TravEndBatchWhen(next_step_lag_us >= 0)
    /\ UNCHANGED pace_vars

NextPace ==
    \/ WindStart
    \/ encoder_irq
    \/ TravStart
    \/ TimePasses
    \/ TravIterateTimed
    \/ TravPulseTimed
    \/ TravEndBatchTimed

SpecPace == Init /\ [][NextPace]_vars

\* ------------------------------------------- the speed control loop
\* The control loop with its clock and its arithmetic, for the default
\* parameters and a wire of the reference pitch (lines 24-26, 55, 146).
BASE_ENCODER_SPEED_CPM == 76
SPEED_CONTROL_INTERVAL_MS_DEFAULT == 200
SPEED_CONTROL_KP_DUTY_PER_CPM_DEFAULT == <<13107, 400>>    \* 32.7675
ENCODER_SLOTS_PER_REV == 20
MaxElapsedMs == 300                 \* the elapsed time is followed up to this
MaxTicks == 3                       \* ticks of one run that are followed
SleepMsChoices == {100}             \* time between two evaluations of line 305

\* int() of the quotient n / d, d > 0: towards zero.
IntOf(n, d) == IF n >= 0 THEN n \div d ELSE -((-n) \div d)

\* Lines 309-315: speed_error_cpm * speed_control_kp_duty_per_cpm as a
\* quotient, measured_cpm being slot_delta * 60000 / (elapsed_ms * slots/rev).
ErrorTimesKp(slot_delta, elapsed_ms) ==
    <<(BASE_ENCODER_SPEED_CPM * elapsed_ms
         - slot_delta * (60000 \div ENCODER_SLOTS_PER_REV))
        * SPEED_CONTROL_KP_DUTY_PER_CPM_DEFAULT[1],
      elapsed_ms * SPEED_CONTROL_KP_DUTY_PER_CPM_DEFAULT[2]>>

\* Lines 292-293 follow the start of WindStart: last_slots and
\* last_control_ms are taken when the loop is entered.
ControlClock ==
    /\ w_pc = "loop_sleep"
    /\ \E ms \in SleepMsChoices :
         control_elapsed_ms' = Min(control_elapsed_ms + ms, MaxElapsedMs)
    /\ UNCHANGED <<last_slots, error_times_kp, control_ticks, pulse_vars,
                   watch_vars, edge_vars, unit_vars, qvars, svars, hvars, wvars, pvars>>

\* Lines 299-320 with the clock: the tick is evaluated when the interval
\* has elapsed, from the slots counted since the last tick.
WindLoopTimed ==
    LET tick == control_elapsed_ms >= SPEED_CONTROL_INTERVAL_MS_DEFAULT
        ek == IF tick /\ t_pc # "failed"
              THEN ErrorTimesKp(encoder_slot_count - last_slots,
                                control_elapsed_ms)
              ELSE error_times_kp
        ticked == tick /\ t_pc # "failed"
    IN /\ control_ticks < MaxTicks
       /\ WindLoopBody(tick, IntOf(ek[1], ek[2]))
       /\ error_times_kp' = ek
       /\ last_slots' = IF ticked THEN encoder_slot_count ELSE last_slots
       /\ control_elapsed_ms' = IF ticked THEN 0 ELSE control_elapsed_ms
       /\ control_ticks' = IF ticked THEN control_ticks + 1 ELSE control_ticks
       /\ UNCHANGED <<pulse_vars, watch_vars, edge_vars, unit_vars>>

NextSpeed ==
    \/ WindStart
    \/ encoder_irq
    \/ ControlClock
    \/ WindLoopTimed
    \/ WindCancelInLoop

SpecSpeed == Init /\ [][NextSpeed]_vars

\* ------------------------------------------- the encoder and the clock
\* SpecEncoder: the pass is started and waits in its control loop while
\* the millisecond clock runs and encoder edges arrive; encoder_irq is
\* modelled with its clock readings.
TICKS_PERIOD == 12          \* period of time.ticks_ms(), scaled
ENCODER_DEBOUNCE_MS == 3

\* time.ticks_diff(a, b): the signed difference within half a period.
ticks_diff(a, b) ==
    ((a - b + TICKS_PERIOD \div 2) % TICKS_PERIOD) - TICKS_PERIOD \div 2

\* Line 203: the edge is dropped.
DebounceOff(now, last) == FALSE
Debounced(now, last) == ticks_diff(now, last) < ENCODER_DEBOUNCE_MS

\* Lines 208-209: the reading counts as a new slot.
ActiveLevel(sensor_value, in_gap) == sensor_value = ENCODER_ACTIVE_LEVEL
NewSlot(sensor_value, in_gap) == sensor_value = ENCODER_ACTIVE_LEVEL /\ ~in_gap

\* One millisecond passes.
ClockAdvance ==
    /\ now_ms' = (now_ms + 1) % TICKS_PERIOD
    /\ ms_since_irq_stamp' = Min(ms_since_irq_stamp + 1, ENCODER_DEBOUNCE_MS)
    /\ UNCHANGED <<w_pc, w_exc, w_pending, t_pc, flags, enc_vars,
                   traversal_steps_moved, irq_attached, duty_value, pwm_duty,
                   pwm_active, gate_pin, trav_locals, fb_vars,
                   last_encoder_irq_ms, last_encoder_slot_ms, irq_outcome,
                   inactive_since_slot, svars, qvars, hvars, pvars>>

ClockTick == ClockAdvance /\ UNCHANGED pace_vars

\* encoder_irq (lines 195-222) with the clock it reads; sensor_value is
\* what pin.value() returns at line 207.
EncoderIrqReads(sensor_value) ==
    /\ irq_attached
    /\ encoder_slot_count < target_encoder_slots + MaxOvershoot
    /\   IF Debounced(now_ms, last_encoder_irq_ms)
         THEN /\ irq_outcome' = "debounced"
              /\ UNCHANGED <<enc_vars, stop_requested, last_encoder_irq_ms,
                             last_encoder_slot_ms, ms_since_irq_stamp,
                             inactive_since_slot>>
         ELSE /\ last_encoder_irq_ms' = now_ms
              /\ ms_since_irq_stamp' = 0
              /\ IF NewSlot(sensor_value, encoder_in_gap)
                 THEN /\ encoder_in_gap' = TRUE
                      /\ last_encoder_slot_ms' = now_ms
                      /\ filtered_slot_interval_ms' =
                           FilteredInterval(filtered_slot_interval_ms,
                                            ticks_diff(now_ms, last_encoder_slot_ms))
                      /\ encoder_slot_count' = encoder_slot_count + 1
                      /\ stop_requested' =
                           (stop_requested \/ TargetReached(encoder_slot_count + 1))
                      /\ irq_outcome' = "active"
                      /\ inactive_since_slot' = FALSE
                 ELSE IF sensor_value = ENCODER_ACTIVE_LEVEL
                 THEN /\ irq_outcome' = "active"
                      /\ UNCHANGED <<enc_vars, stop_requested,
                                     last_encoder_slot_ms, inactive_since_slot>>
                 ELSE /\ encoder_in_gap' = FALSE
                      /\ irq_outcome' = "inactive"
                      /\ inactive_since_slot' = TRUE
                      /\ UNCHANGED <<encoder_slot_count, filtered_slot_interval_ms,
                                     stop_requested, last_encoder_slot_ms>>
    /\ UNCHANGED <<w_pc, w_exc, w_pending, t_pc, running, interrupted,
                   traversal_exception, traversal_steps_moved, irq_attached,
                   duty_value, pwm_duty, pwm_active, gate_pin, trav_locals,
                   fb_vars, now_ms, svars, qvars, hvars, pvars>>

\* A call of the handler that may read either level.
encoder_irq_at_now ==
    (\E sensor_value \in EncoderLevels : EncoderIrqReads(sensor_value))
    /\ UNCHANGED pace_vars

NextEncoder ==
    \/ WindStart
    \/ ClockTick
    \/ encoder_irq_at_now

SpecEncoder == Init /\ [][NextEncoder]_vars

\* ------------------------------------------- the intervals of the slots
\* The handler with the inter-slot intervals it measures: any sequence of
\* ticks_diff results, the non-positive ones of a clock read twice in one
\* millisecond or wrapped included.
IntervalChoices == {-2, 0, 1, 2, 7, 8}

encoder_irq_measured ==
    \E bounce \in BOOLEAN, sensor_value \in EncoderLevels,
       slot_interval_ms \in IntervalChoices :
        /\ EncoderIrqGets(bounce, sensor_value, slot_interval_ms)
        /\ IF encoder_slot_count' # encoder_slot_count
           THEN /\ last_interval_ms' = slot_interval_ms
                /\ min_interval_ms' =
                     IF slot_interval_ms <= 0 THEN min_interval_ms
                     ELSE IF min_interval_ms = 0 THEN slot_interval_ms
                     ELSE Min(min_interval_ms, slot_interval_ms)
                /\ max_interval_ms' =
                     IF slot_interval_ms <= 0 \/ slot_interval_ms < max_interval_ms
                     THEN max_interval_ms ELSE slot_interval_ms
           ELSE UNCHANGED seen_intervals
        /\ UNCHANGED <<pulse_vars, speed_vars, watch_vars, unit_vars, sensor_level,
                       ms_since_edge, ms_since_accept>>

NextIntervals ==
    \/ WindStart
    \/ encoder_irq_measured

SpecIntervals == Init /\ [][NextIntervals]_vars

\* ------------------------------------------- the edges of the encoder pin
\* The handler is attached to both edges of one photo-interrupter (lines
\* 282-283): it runs once for every change of the pin's level and reads the
\* level the pin has then.  The time between two accepted edges stays below
\* half the period of the clock, as in a winding pass.

\* The pass starts; encoder_in_gap is set from the pin's level (line 187).
WindStartSensed ==
    /\ \E level \in EncoderLevels :
         /\ WindStartAt(level)
         /\ sensor_level' = level
    /\ ms_since_edge' = 0
    /\ ms_since_accept' = 0
    /\ UNCHANGED <<pulse_vars, speed_vars, watch_vars, unit_vars, seen_intervals>>

\* One millisecond passes without an edge.
ClockTickBetweenEdges ==
    /\ irq_attached
    /\ ms_since_accept < (TICKS_PERIOD \div 2) - 1
    /\ ClockAdvance
    /\ ms_since_edge' = Min(ms_since_edge + 1, ENCODER_DEBOUNCE_MS)
    /\ ms_since_accept' = ms_since_accept + 1
    /\ UNCHANGED <<sensor_level, pulse_vars, speed_vars, watch_vars, unit_vars, seen_intervals>>

\* The pin changes its level and the handler runs.
encoder_edge ==
    /\ sensor_level' = 1 - sensor_level
    /\ EncoderIrqReads(1 - sensor_level)
    /\ ms_since_edge' = 0
    /\ ms_since_accept' = IF Debounced(now_ms, last_encoder_irq_ms)
                          THEN ms_since_accept ELSE 0
    /\ UNCHANGED <<pulse_vars, speed_vars, watch_vars, unit_vars, seen_intervals>>

NextEdges ==
    \/ WindStartSensed
    \/ ClockTickBetweenEdges
    \/ encoder_edge

SpecEdges == Init /\ [][NextEdges]_vars

\* ------------------------------------------------------ the winding plan
\* windingcalculator.py.  Lengths are whole hundredths of a millimetre
\* (the AWG table has two decimals for magnet wire), so the quotients the
\* program forms in floating point are exact fractions here; a product
\* turns * steps_per_turn is a multiple of 1/5 and never a rounding tie.
MaxTurns == 3               \* largest total_turns of the enumerated calls
MaxLayers == 13             \* layers a call may append before it is cut off
STEPS_PER_REV == 200
LEAD_MM == 125              \* 1.25 mm

TurnChoices == 0..MaxTurns
SpoolChoices == {-100, 0, 50, 170, 200}
WireChoices == {-85, 0, 85, 106}
MagnetDiameters == {85, 106}        \* AWG 20 and AWG 18 magnet wire
ExampleInput == <<300, 2000, 85>>   \* _async_example

\* a // b on numbers of either sign (b # 0): the floor of the quotient.
FloorDiv(a, b) == IF b > 0 THEN a \div b ELSE (-a) \div (-b)

\* round(n / d) for d > 0: to the nearest whole number, a tie to the even
\* one; int(n / d) truncates toward zero.
Truncate(n, d) == IF n >= 0 THEN n \div d ELSE -((-n) \div d)
Round(n, d) ==
    LET q == n \div d
        r == n % d
    IN IF 2 * r < d THEN q
       ELSE IF 2 * r > d THEN q + 1
       ELSE IF q % 2 = 0 THEN q ELSE q + 1

\* Lines 51-54 and 74, 77: the turns of an odd and of an even layer.
SameAsEven(turns_per_layer) == turns_per_layer
OddTurns(turns_per_layer) == turns_per_layer + 1
EvenTurns(turns_per_layer) == turns_per_layer

\* Lines 50, 56-57: round(turns * steps_per_turn), with
\* steps_per_turn = STEPS_PER_REV * (wire_diameter_mm / LEAD_MM).
LayerSteps(turns, diameter) == Round(turns * STEPS_PER_REV * diameter, LEAD_MM)

\* winding_plan up to its loop (lines 62-70): compute_layer_steps divides
\* by the wire diameter.
EnterPlan(caller, turns, width, diameter) ==
    /\ plan_caller' = caller
    /\ total_turns' = turns
    /\ spool_width_mm' = width
    /\ wire_diameter_mm' = diameter
    /\ layers' = <<>>
    /\ IF diameter = 0
       THEN /\ plan_pc' = "raised"
            /\ plan_exc' = "ZeroDivisionError"
            /\ UNCHANGED <<odd_steps, even_steps, remaining_turns, layer_num>>
       ELSE /\ odd_steps' = LayerSteps(OddTurns(FloorDiv(width, diameter)), diameter)
            /\ even_steps' = LayerSteps(EvenTurns(FloorDiv(width, diameter)), diameter)
            /\ remaining_turns' = turns
            /\ layer_num' = 1
            /\ plan_pc' = "loop"
            /\ plan_exc' = "none"

\* winding_plan(total_turns, spool_width_mm, wire_diameter_mm) is called.
PlanCall ==
    /\ plan_pc = "idle"
    /\ \E input \in (TurnChoices \X SpoolChoices \X WireChoices) \cup {ExampleInput} :
         EnterPlan("winding_plan", input[1], input[2], input[3])
    /\ UNCHANGED <<qvars, svars, hvars, wvars, pace_vars>>

\* wind_first_layer, lines 113-149: the loaded parameters and the table
\* diameter are tested before the plan is asked for.
PlanFromParameters ==
    /\ plan_pc = "idle"
    /\ \E turns \in TurnChoices, width \in SpoolChoices, diameter \in MagnetDiameters :
         IF turns <= 0 \/ width <= 0 \/ diameter <= 0
         THEN /\ plan_pc' = "raised"
              /\ plan_exc' = "ValueError"
              /\ plan_caller' = "wind_first_layer"
              /\ total_turns' = turns
              /\ spool_width_mm' = width
              /\ wire_diameter_mm' = diameter
              /\ UNCHANGED <<odd_steps, even_steps, layers, remaining_turns, layer_num>>
         ELSE EnterPlan("wind_first_layer", turns, width, diameter)
    /\ UNCHANGED <<qvars, svars, hvars, wvars, pace_vars>>

\* The loop test of winding_plan (line 72).
PlanRunsOver(remaining) == remaining >= 0
PlanGoesOn(remaining) == remaining > 0

\* One test of `while remaining > 0` and, if it holds, one round of the
\* loop (lines 72-84).
PlanLoop ==
    /\ plan_pc = "loop"
    /\ PlanGoesOn(remaining_turns) => Len(layers) < MaxLayers
    /\ IF PlanGoesOn(remaining_turns)
       THEN LET turns == IF layer_num % 2 = 1
                         THEN OddTurns(FloorDiv(spool_width_mm, wire_diameter_mm))
                         ELSE EvenTurns(FloorDiv(spool_width_mm, wire_diameter_mm))
                steps == IF layer_num % 2 = 1 THEN odd_steps ELSE even_steps
            IN /\ layers' = Append(layers, <<layer_num, turns, steps>>)
               /\ remaining_turns' = remaining_turns - turns
               /\ layer_num' = layer_num + 1
               /\ UNCHANGED plan_pc
       ELSE /\ plan_pc' = "returned"
            /\ UNCHANGED <<layers, remaining_turns, layer_num>>
    /\ UNCHANGED <<plan_exc, plan_caller, total_turns, spool_width_mm,
                   wire_diameter_mm, odd_steps, even_steps>>
    /\ UNCHANGED <<qvars, svars, hvars, wvars, pace_vars>>

NextPlan ==
    \/ PlanCall
    \/ PlanFromParameters
    \/ PlanLoop

\* SpecPlan: one planning call; a call that has begun keeps running.
SpecPlan == Init /\ [][NextPlan]_vars /\ WF_vars(PlanLoop)

\* ====================================================== Part 5: NAU7802
\* The DRDY interrupt path of the load-cell converter.  The handler runs in
\* interrupt context on an edge of the DRDY pin; _drdy_signal is handed to
\* micropython.schedule, which raises RuntimeError when its queue is full;
\* the scheduled callbacks run later, outside the handler.

\* Slots of the scheduler's queue and handler calls followed in one setup.
SchedulerDepth == 2
MaxIrqs == 3

\* setup_drdy_interrupt (lines 254-277): a fresh flag, the counters at 0.
setup_drdy_interrupt ==
    /\ drdy_flag = "none"
    /\ drdy_flag' = "clear"
    /\ drdy_irq_count' = 0
    /\ drdy_rising_count' = 0
    /\ drdy_falling_count' = 0
    /\ drdy_schedule_drop_count' = 0
    /\ UNCHANGED <<scheduled, drdy_irq_signalled>>
    /\ UNCHANGED <<qvars, svars, hvars, wvars, pvars, timing_vars, coord_vars,
                   spindle_vars>>

\* _drdy_irq_handler (lines 232-252), with _drdy_signal (lines 224-230)
\* where the handler calls it itself.
drdy_irq_handler ==
    /\ drdy_flag # "none"
    /\ drdy_irq_count < MaxIrqs
    /\ drdy_irq_count' = drdy_irq_count + 1
    /\ \E pin_value \in {0, 1} :
         IF pin_value = 1
         THEN /\ drdy_rising_count' = drdy_rising_count + 1
              /\ UNCHANGED drdy_falling_count
         ELSE /\ drdy_falling_count' = drdy_falling_count + 1
              /\ UNCHANGED drdy_rising_count
    /\ IF scheduled < SchedulerDepth
       THEN /\ scheduled' = scheduled + 1
            /\ drdy_irq_signalled' = FALSE
            /\ UNCHANGED <<drdy_flag, drdy_schedule_drop_count>>
       ELSE /\ drdy_schedule_drop_count' = drdy_schedule_drop_count + 1
            /\ drdy_flag' = "set"
            /\ drdy_irq_signalled' = TRUE
            /\ UNCHANGED scheduled
    /\ UNCHANGED <<qvars, svars, hvars, wvars, pvars, timing_vars, coord_vars,
                   spindle_vars>>

\* The scheduler runs one waiting _drdy_signal (lines 224-230).
drdy_signal_scheduled ==
    /\ scheduled > 0
    /\ scheduled' = scheduled - 1
    /\ drdy_flag' = IF drdy_flag = "none" THEN "none" ELSE "set"
    /\ UNCHANGED <<drdy_irq_count, drdy_rising_count, drdy_falling_count,
                   drdy_schedule_drop_count, drdy_irq_signalled>>
    /\ UNCHANGED <<qvars, svars, hvars, wvars, pvars, timing_vars, coord_vars,
                   spindle_vars>>

\* wait_for_drdy_interrupt (lines 279-295) returns: ThreadSafeFlag.wait()
\* ends on a set flag and clears it.
wait_for_drdy_interrupt ==
    /\ drdy_flag = "set"
    /\ drdy_flag' = "clear"
    /\ UNCHANGED <<drdy_irq_count, drdy_rising_count, drdy_falling_count,
                   drdy_schedule_drop_count, scheduled, drdy_irq_signalled>>
    /\ UNCHANGED <<qvars, svars, hvars, wvars, pvars, timing_vars, coord_vars,
                   spindle_vars>>

\* clear_drdy_interrupt (lines 306-317); callbacks already scheduled stay
\* in the scheduler's queue.
clear_drdy_interrupt ==
    /\ drdy_flag # "none"
    /\ drdy_flag' = "none"
    /\ drdy_irq_count' = 0
    /\ drdy_rising_count' = 0
    /\ drdy_falling_count' = 0
    /\ drdy_schedule_drop_count' = 0
    /\ UNCHANGED <<scheduled, drdy_irq_signalled>>
    /\ UNCHANGED <<qvars, svars, hvars, wvars, pvars, timing_vars, coord_vars,
                   spindle_vars>>

NextDrdy ==
    \/ setup_drdy_interrupt
    \/ drdy_irq_handler
    \/ drdy_signal_scheduled
    \/ wait_for_drdy_interrupt
    \/ clear_drdy_interrupt

SpecDrdy == Init /\ [][NextDrdy]_vars

\* ============================================ Part 6: WinderCoordinator
\* test_winder_coordination.py: on every slot of the winder's encoder the
\* coordinator queues the stepper movement that brings the wire guide to
\* its place for that slot, layer after layer; a background thread drains
\* the stepper's queue.

\* calculate_parameters (lines 82-117) for a short bobbin and a coarse
\* screw: wires_per_layer = int(bobbin_length / wire_diameter),
\* steps_per_wire = int(wire_diameter / LEAD_SCREW_PITCH * STEPS_PER_REV).
wires_per_layer == 6
steps_per_wire == 12
num_layers == 2
\* self.SLOTS_PER_REV = 16 (line 44).
SLOTS_PER_REV == 16

steps_per_layer == steps_per_wire * wires_per_layer
coord_total_steps == steps_per_layer * num_layers
slots_per_layer == wires_per_layer * SLOTS_PER_REV

\* int((slot_in_layer + 1) * self.steps_per_slot) (line 171), where
\* steps_per_slot = steps_per_layer / slots_per_layer (line 100) is
\* steps_per_wire / 16: a float that holds the quotient exactly, and so are
\* its products with the slot numbers.
TargetStepsInLayer(slot_in_layer) ==
    ((slot_in_layer + 1) * steps_per_layer) \div slots_per_layer

\* `if not success: ... return False` (lines 202-204).
NeverReturnsEarly(success) == FALSE
ReturnsEarly(success) == ~success

\* The counters after the slot is taken (lines 209-231).
SlotTaken(steps_queued) ==
    LET slot == current_slot + 1
        ends_layer == slot % slots_per_layer = 0 /\ slot > 0
    IN /\ total_steps_queued' = steps_queued
       /\ current_slot' = slot
       /\ current_wire' =
              IF slot % SLOTS_PER_REV = 0 THEN current_wire + 1 ELSE current_wire
       /\ IF ends_layer
          THEN IF current_layer >= num_layers
               THEN /\ all_layers_complete' = TRUE
                    /\ layer_complete' = TRUE
                    /\ layer_announced' = TRUE
                    /\ UNCHANGED <<current_layer, current_direction>>
               ELSE \* start_next_layer (lines 236-240)
                    /\ current_layer' = current_layer + 1
                    /\ layer_complete' = FALSE
                    /\ current_direction' = -current_direction
                    /\ layer_announced' = FALSE
                    /\ UNCHANGED all_layers_complete
          ELSE /\ layer_announced' = TRUE
               /\ UNCHANGED <<current_layer, current_direction, layer_complete,
                              all_layers_complete>>
       /\ trigger_result' = "True"
       /\ UNCHANGED trigger_rejected

\* simulate_slot_trigger (lines 152-233), start to end, queue_step inside.
simulate_slot_trigger ==
    /\ CapIdle
    /\ IF all_layers_complete
       THEN /\ trigger_result' = "False"
            /\ UNCHANGED <<qvars, current_layer, current_wire, current_slot,
                           current_direction, layer_complete, all_layers_complete,
                           layer_announced, total_steps_queued, trigger_rejected>>
       ELSE LET slot_in_layer == current_slot % slots_per_layer
                target_steps_in_layer == TargetStepsInLayer(slot_in_layer)
                layer_start_steps == (current_layer - 1) * steps_per_layer
                steps_queued_in_layer == total_steps_queued - layer_start_steps
                steps_to_move == target_steps_in_layer - steps_queued_in_layer
                success == ~QueueIsFull(command_queue)
            IN IF steps_to_move > 0
               THEN /\ QueueStepBody("api", steps_to_move, current_direction)
                    /\ IF ReturnsEarly(success)
                       THEN /\ trigger_result' = "False"
                            /\ trigger_rejected' = TRUE
                            /\ layer_announced' = TRUE
                            /\ UNCHANGED <<current_layer, current_wire,
                                           current_slot, current_direction,
                                           layer_complete, all_layers_complete,
                                           total_steps_queued>>
                       ELSE SlotTaken(total_steps_queued + steps_to_move)
               ELSE /\ SlotTaken(total_steps_queued)
                    /\ UNCHANGED qvars
    /\ UNCHANGED <<svars, hvars, wvars, pvars, timing_vars, drdy_vars, spindle_vars>>

\* queue_processor (lines 242-249): one turn of the `while
\* self.command_queue` loop of execute_all_queued, the popped command
\* stepped to its end; the flag is up until the loop finds the queue empty.
coord_queue_processor ==
    /\ CapIdle
    /\ command_queue # <<>>
    /\ LET cmd == Popleft(command_queue).item
           r == PulseLoop(Abs(cmd.steps), cmd.direction, current_step, pins)
       IN /\ command_queue' = Popleft(command_queue).rest
          /\ current_step' = r.cur
          /\ pins' = r.pins
          /\ total_steps' = NewTotal(total_steps, cmd.steps)
          /\ is_executing' = (Popleft(command_queue).rest # <<>>)
    /\ UNCHANGED <<locals, history>>
    /\ UNCHANGED notqueue

NextCoord ==
    \/ simulate_slot_trigger
    \/ coord_queue_processor

SpecCoord == Init /\ [][NextCoord]_vars

\* ================================================= Part 7: SpindleMotor
\* esp32s2/spindle_motor.py: run() moves the PWM duty by ramp_rate every
\* 200 ms toward the target set by set_speed.

MAX_SPEED == 100
MIN_SPEED == 0

\* int(percent * 655.35) for a whole percentage.  In double precision this
\* is the floor of percent * 65535 / 100; in single precision 100 * 655.35
\* rounds to 65534.996 and the result is one less.
PercentToU16(single, percent) ==
    IF single /\ percent = 100 THEN 65534 ELSE (percent * 65535) \div 100

\* The calls of one pass: main() changes the speed twice.
MaxSpeedChanges == 2
SpeedChoices == {0, 50, 100}
RampChoices == {2, 10}

\* set_speed(duty) followed by set_ramp_rate(rate) with no await between
\* them (lines 19-23, as main calls them at lines 45-46 and 50-51).
set_speed_and_ramp_rate ==
    /\ speed_changes < MaxSpeedChanges
    /\ \E duty \in SpeedChoices, rate \in RampChoices,
          single \in IF speed_changes = 0 THEN BOOLEAN ELSE {single_floats} :
          /\ spindle_target' = PercentToU16(single, duty)
          /\ spindle_ramp_rate' = PercentToU16(single, rate)
          /\ single_floats' = single
    /\ speed_changes' = speed_changes + 1
    /\ UNCHANGED <<spindle_current, spindle_duty>>
    /\ UNCHANGED <<qvars, svars, hvars, wvars, pvars, timing_vars, drdy_vars, coord_vars>>

\* self.current after one turn of the loop of run() (lines 27-34).
RampStep(current, target, ramp_rate) ==
    IF current < target
    THEN IF current + ramp_rate >= PercentToU16(single_floats, MAX_SPEED)
         THEN PercentToU16(single_floats, MAX_SPEED)
         ELSE current + ramp_rate
    ELSE IF current > target
         THEN IF current - ramp_rate <= MIN_SPEED
              THEN MIN_SPEED
              ELSE current - ramp_rate
         ELSE current

\* One turn of `while True` of run() (lines 26-39), up to the sleep.  Before
\* the first set_ramp_rate the rate is None and current equals target.
spindle_run ==
    /\ spindle_ramp_rate >= 0 \/ spindle_current = spindle_target
    /\ spindle_current' = RampStep(spindle_current, spindle_target, spindle_ramp_rate)
    /\ spindle_duty' = spindle_current'
    /\ UNCHANGED <<spindle_target, spindle_ramp_rate, single_floats, speed_changes>>
    /\ UNCHANGED <<qvars, svars, hvars, wvars, pvars, timing_vars, drdy_vars, coord_vars>>

NextSpindle ==
    \/ set_speed_and_ramp_rate
    \/ spindle_run

\* run() is a task of the uasyncio loop and sleeps 200 ms a turn: it gets
\* its next turn.
SpecSpindle == Init /\ [][NextSpindle]_vars /\ WF_vars(spindle_run)

\* ====================================================== claims
\* Ids of the commands in a deque, oldest first.
QueueIds(q) == [i \in 1..Len(q) |-> q[i].id]

StrictlyIncreasing(ids) == \A i, j \in 1..Len(ids) : i < j => ids[i] < ids[j]

SeqRange(ids) == {ids[i] : i \in 1..Len(ids)}

\* The command a context holds between its popleft and the end of step().
InFlight(c) == IF pc[c] \in {"step_loop", "step_store"} THEN {command[c].id} ELSE {}

\* C1: the command queue never holds more than 100 commands, and a
\* queue_step() call made while it holds 100 returns False and leaves the
\* queue, contents and order, as it was.
C1_QueueBoundedAndFullRejects ==
    /\ [](Len(command_queue) <= 100)
    /\ [][(op'["api"] = "queue_step" /\ Len(command_queue) = 100)
            => (ret'["api"] = "False" /\ command_queue' = command_queue)]_vars

\* A queue_step() call was rejected on a queue of 100 commands.
C1_Witness ==
    /\ Len(command_queue) = 100
    /\ op["api"] = "queue_step"
    /\ ret["api"] = "False"

\* C11: while an execute_all_queued() call is between its flag write and its
\* finally clause (loop test, popleft, pulses and counter update of every
\* drained command) is_executing is True, and once the call has ended, by
\* return or by an exception of popleft or step(), it is False; the flag
\* goes from True to False only in a finally clause.
C11_FlagHeldAcrossDrain ==
    /\ [](\A c \in {"proc"} :
            /\ (op[c] = "execute_all_queued"
                 /\ pc[c] \in {"eaq_while", "eaq_pop", "step_loop", "step_store"})
                  => is_executing
            /\ (op[c] = "execute_all_queued" /\ pc[c] \in {"idle", "crashed"})
                  => ~is_executing)
    /\ [][(is_executing /\ ~is_executing')
            => pc["proc"] \in {"eaq_finally", "eq_finally"}]_vars

\* A drain completed one command, then a step() raised, and the call ended
\* with the flag down.
C11_Witness ==
    /\ op["proc"] = "execute_all_queued"
    /\ pc["proc"] = "crashed"
    /\ exc["proc"] = "StepError"
    /\ Len(executed) >= 1
    /\ ~is_executing

\* A statement of a clear_queue() call of the control surface runs.
ClearQueueStep ==
    /\ op'["api"] = "clear_queue"
    /\ (pc'["api"] # pc["api"] \/ op'["api"] # op["api"])

\* C12: a statement of clear_queue() changes neither total_steps nor
\* current_step nor is_executing nor the coil outputs, and only removes
\* commands from the head of the queue; when the call returns the queue is
\* empty; a command it removed is never executed: it is never in the
\* queue again, never held by the executor and never in the executed log.
C12_ClearQueueOnlyEmptiesQueue ==
    /\ [][ClearQueueStep =>
            /\ UNCHANGED <<total_steps, current_step, is_executing, pins, executed>>
            /\ \E k \in 0..Len(command_queue) :
                   command_queue' = SubSeq(command_queue, k + 1, Len(command_queue))
            /\ (pc'["api"] = "idle" /\ exc'["api"] = "none") => command_queue' = <<>>]_vars
    /\ [](cleared \cap (SeqRange(QueueIds(command_queue)) \cup InFlight("proc")
                         \cup SeqRange(executed)) = {})

\* A clear_queue() returned having dropped a command, after the executor
\* had run another one: the queue is empty and the counter kept its value.
C12_Witness ==
    /\ op["api"] = "clear_queue"
    /\ pc["api"] = "idle"
    /\ exc["api"] = "none"
    /\ cleared # {}
    /\ command_queue = <<>>
    /\ Len(executed) >= 1
    /\ total_steps > 0

\* C13: with clear_queue() and reset_step_count() called from the control
\* surface while the queue-processor thread drains, no context ever raises
\* IndexError from a popleft on an emptied queue, and no reset is lost:
\* the counter value a step() read for its `+=` is still the counter's
\* value when it stores the sum.
C13_ClearAndResetSafeDuringDrain ==
    /\ \A c \in Ctx : exc[c] # "IndexError"
    /\ pc["proc"] = "step_store" => loaded_total["proc"] = total_steps

\* The fields encoder_irq owns.
EncoderState ==
    <<encoder_slot_count, encoder_in_gap, filtered_slot_interval_ms,
      last_encoder_irq_ms, last_encoder_slot_ms, stop_requested>>

\* An encoder_irq call runs: it is the only step that records an outcome
\* or a new interrupt timestamp while the handler is attached.
EncoderIrqRuns == irq_attached /\ now_ms' = now_ms /\ w_pc' = w_pc

\* C14: an encoder_irq call made less than ENCODER_DEBOUNCE_MS (3 ms) after
\* the last accepted edge changes no encoder state: slot count, in-gap
\* flag, both timestamps, filtered interval and stop flag stay as they
\* were.  So an edge 1 ms after a counted edge leaves the count at the one
\* slot counted.
C14_BounceChangesNothing ==
    [][(EncoderIrqRuns /\ ms_since_irq_stamp < ENCODER_DEBOUNCE_MS)
         => UNCHANGED EncoderState]_vars

\* The first slot was counted and an edge arriving 1 ms later was dropped:
\* one slot is counted.
C14_Witness ==
    /\ irq_outcome = "debounced"
    /\ ms_since_irq_stamp = 1
    /\ last_encoder_slot_ms = last_encoder_irq_ms
    /\ encoder_in_gap
    /\ encoder_slot_count = 1

\* C15: encoder_slot_count changes only by +1, in an accepted encoder_irq
\* call that read the active level while encoder_in_gap was False; an
\* accepted call that read the inactive level leaves the count alone; and
\* between two increments there is an accepted inactive reading.
C15_OneCountPerGap ==
    /\ [][encoder_slot_count' # encoder_slot_count
            => /\ encoder_slot_count' = encoder_slot_count + 1
               /\ EncoderIrqRuns
               /\ irq_outcome' = "active"
               /\ last_encoder_irq_ms' = now_ms
               /\ ~encoder_in_gap
               /\ encoder_slot_count >= 1 => inactive_since_slot]_vars
    /\ [][(EncoderIrqRuns /\ irq_outcome' = "inactive" /\ ms_since_irq_stamp' = 0)
            => encoder_slot_count' = encoder_slot_count]_vars

\* The second slot has just been counted by an accepted active reading,
\* after an inactive reading ended the first gap.
C15_Witness ==
    /\ encoder_slot_count = 2
    /\ irq_outcome = "active"
    /\ encoder_in_gap
    /\ ~inactive_since_slot
    /\ last_encoder_slot_ms = last_encoder_irq_ms
    /\ ms_since_irq_stamp = 0

\* C16: in a pass that is not cancelled stop_requested is True exactly
\* when encoder_slot_count >= target_encoder_slots; the step that takes the
\* count to the target sets the flag; the flag is never cleared; and when
\* the control loop runs with the flag set it leaves the loop with the
\* spindle duty at the OFF level.
C16_StopFlagFollowsTarget ==
    /\ [](~interrupted =>
            (stop_requested <=> encoder_slot_count >= target_encoder_slots))
    /\ [][(encoder_slot_count < target_encoder_slots
             /\ encoder_slot_count' >= target_encoder_slots) => stop_requested']_vars
    /\ [][stop_requested => stop_requested']_vars
    /\ [][(w_pc = "loop_sleep" /\ stop_requested
             /\ <<w_pc, duty_value, pwm_duty>>' # <<w_pc, duty_value, pwm_duty>>)
            => (w_pc' \in {"catchup_sleep", "await_trav"} /\ pwm_duty' = MAX_DUTY)]_vars

\* The count reached the target while the loop slept, and the loop's next
\* poll left the loop with the spindle off.
C16_Witness ==
    /\ w_pc \in {"catchup_sleep", "await_trav"}
    /\ w_pending = "none"
    /\ ~interrupted
    /\ stop_requested
    /\ encoder_slot_count = target_encoder_slots
    /\ pwm_duty = MAX_DUTY

RECURSIVE SumTurns(_)
SumTurns(ls) == IF ls = <<>> THEN 0 ELSE ls[1][2] + SumTurns(Tail(ls))

PositiveInputs ==
    total_turns > 0 /\ spool_width_mm > 0 /\ wire_diameter_mm > 0

\* C17: a winding_plan() call with total_turns, spool_width_mm and
\* wire_diameter_mm all positive raises nothing and returns; the layers it
\* returns are numbered from 1, an odd layer has
\* floor(spool_width/wire_diameter) + 1 turns, an even layer
\* floor(spool_width/wire_diameter), and the turns add up to at least
\* total_turns.
C17_PlanCoversRequestedTurns ==
    /\ []((PositiveInputs /\ plan_pc = "returned") =>
            /\ SumTurns(layers) >= total_turns
            /\ \A i \in 1..Len(layers) :
                  /\ layers[i][1] = i
                  /\ layers[i][2] = (spool_width_mm \div wire_diameter_mm)
                                      + (IF i % 2 = 1 THEN 1 ELSE 0))
    /\ [](PositiveInputs => plan_pc # "raised")
    /\ ((PositiveInputs /\ plan_pc = "loop") ~> plan_pc = "returned")

\* A wire wider than the spool: odd layers of one turn and even layers of
\* none still reach the requested turns.
C17_Witness ==
    /\ plan_pc = "returned"
    /\ PositiveInputs
    /\ wire_diameter_mm > spool_width_mm
    /\ total_turns = MaxTurns
    /\ Len(layers) = 2 * MaxTurns - 1

C19_LayerStepsRounded ==
    /\ \A i \in 1..Len(layers) :
          2 * Abs(layers[i][3] * LEAD_MM
                    - layers[i][2] * STEPS_PER_REV * wire_diameter_mm) <= LEAD_MM
    /\ (<<total_turns, spool_width_mm, wire_diameter_mm>> = ExampleInput
          /\ Len(layers) >= 1) => layers[1] = <<1, 24, 3264>>

\* The example plan returned: 13 layers for 300 turns, the last an odd
\* layer of 24 turns and 3264 steps.
C19_Witness ==
    /\ plan_pc = "returned"
    /\ <<total_turns, spool_width_mm, wire_diameter_mm>> = ExampleInput
    /\ Len(layers) = 13
    /\ layers[13] = <<13, 24, 3264>>

\* C20: the traversal task has emitted at most 4 step pulses since it last
\* yielded to the scheduler, in every state.
C20_AtMostFourPulsesPerYield == pulses_since_yield <= 4

\* C2: during a winding pass traversal_steps_moved never exceeds
\* first_layer_steps and no step of the program decreases it.
C2_StepsMovedBoundedMonotone ==
    /\ [](traversal_steps_moved <= first_layer_steps)
    /\ [][traversal_steps_moved' >= traversal_steps_moved]_vars

\* The encoder counted past the target and the traversal stopped exactly at
\* the layer's steps.
C2_Witness ==
    /\ encoder_slot_count > target_encoder_slots
    /\ traversal_steps_moved = first_layer_steps
    /\ t_pc = "done"

\* C3: when wind_first_layer returns normally (no cancellation, no
\* traversal fault), traversal_steps_moved equals first_layer_steps.
C3_NormalCompletionReachesTarget ==
    (w_pc \in {"returned", "stopped"} /\ w_exc = "none")
        => traversal_steps_moved = first_layer_steps

\* A pass returned normally after the traversal task had stopped one step
\* short and the fallback move supplied the rest.
C3_Witness ==
    /\ w_pc = "returned"
    /\ w_exc = "none"
    /\ fallback_started
    /\ remaining_steps > 0
    /\ traversal_steps_moved = first_layer_steps

\* C4: once home_traversal_guide has been left, by its return, by a
\* RuntimeError or by a cancellation raised at one of its suspension
\* points, the stepper driver is disabled: the flag is False and the EN pin
\* is at its disable level.
C4_HomingEndsDisabled ==
    h_pc \in {"returned", "raised"}
        => (~stepper_enabled /\ en_pin = EnLevel(FALSE))

\* The routine was cancelled at a suspension point of the last recovery
\* search, after the driver had been enabled and pulsed.
C4_Witness ==
    /\ h_pc = "raised"
    /\ h_exc = "Cancelled"
    /\ sk_phase = "recovery_cw"
    /\ h_pulses > 0
    /\ ~stepper_enabled

\* The spindle is at its off level: the off duty while the PWM exists, the
\* gate pin high once it has been released.
SpindleOff == IF pwm_active THEN pwm_duty = MAX_DUTY ELSE gate_pin = 1

\* C5: from a cancellation on, the spindle duty is at MAX_DUTY, and when
\* the cancellation reaches the caller the cleanup is complete: traversal
\* task ended, PWM released with the gate high, stepper driver disabled.
C5_CancellationCleansUpBeforeReraise ==
    /\ interrupted => pwm_duty = MAX_DUTY
    /\ (w_pc = "raised" /\ w_exc = "Cancelled")
         => /\ t_pc \in TravFinished
            /\ ~pwm_active /\ gate_pin = 1
            /\ ~stepper_enabled /\ en_pin = EnLevel(FALSE)

\* C6: whenever wind_first_layer has given control back to its caller the
\* spindle is off and the stepper driver is disabled, and a pass that ended
\* with the traversal task's exception issued no fallback move.
C6_EveryExitLeavesMotorsOff ==
    /\ w_pc \in {"returned", "raised"}
         => (SpindleOff /\ ~stepper_enabled /\ en_pin = EnLevel(FALSE))
    /\ w_exc = "Fault" => ~fallback_started

\* C7: an execute_all_queued() call that returned, with no reset_step_count
\* since it began, left total_steps larger than at its start by exactly the
\* sum of abs(steps) of the commands it popped.
C7_DrainAddsSumOfMagnitudes ==
    \A c \in Ctx :
        (/\ op[c] = "execute_all_queued"
         /\ pc[c] = "idle"
         /\ exc[c] = "none"
         /\ ~call_reset[c])
        => total_steps = call_total0[c] + call_sum[c]

\* A drain returned after executing a command that was queued while the
\* drain was already running.
C7_Witness ==
    /\ op["proc"] = "execute_all_queued"
    /\ pc["proc"] = "idle"
    /\ exc["proc"] = "none"
    /\ ~call_reset["proc"]
    /\ call_sum["proc"] >= 3
    /\ \E i \in 1..Len(executed) : executed[i] >= call_accepted0["proc"]

\* C8: the coils go from energized to released only at the second test of
\* execute_all_queued, after the first test saw the queue empty and with the
\* queue empty again after the sleep; a call that ended having seen the
\* queue empty at both tests ended with the coils released, and a call that
\* saw a command at either test left the coils energized.
C8_ReleaseOnlyAfterGraceWindow ==
    /\ [][(pins # ReleasedPins /\ pins' = ReleasedPins)
            => \E c \in Ctx : /\ pc[c] = "eaq_sleep"
                              /\ chk1[c] = "empty"
                              /\ command_queue = <<>>
                              /\ chk2'[c] = "empty"]_vars
    /\ [](\A c \in Ctx :
            (op[c] = "execute_all_queued" /\ pc[c] \in {"idle", "crashed"})
            => /\ (chk1[c] = "empty" /\ chk2[c] = "empty") => pins = ReleasedPins
               /\ (call_pulses[c] > 0 /\ "pending" \in {chk1[c], chk2[c]})
                      => pins # ReleasedPins)

\* A command arrived during the grace window and the call ended with the
\* coils still energized.
C8_Witness ==
    /\ op["proc"] = "execute_all_queued"
    /\ pc["proc"] = "idle"
    /\ chk1["proc"] = "empty"
    /\ chk2["proc"] = "pending"
    /\ pins # ReleasedPins

\* C9: at most one context is inside step()'s pulse loop at any moment, and
\* an execute_queue() call that reads is_executing as True returns False
\* with the motor (queue, counters, coils) untouched.
C9_NoDoubleExecution ==
    /\ [](Cardinality({c \in Ctx : pc[c] = "step_loop"}) <= 1)
    /\ [][\A c \in Ctx :
            (/\ pc[c] = "idle"
             /\ is_executing
             /\ op'[c] = "execute_queue"
             /\ <<op[c], ret[c]>> # <<op'[c], ret'[c]>>)
            => (ret'[c] = "False" /\ pc'[c] = "idle" /\ UNCHANGED motor)]_vars

\* C10: every accepted command is in exactly one place (still queued, held
\* by the executor, executed, or removed by clear_queue), so none is consumed
\* twice or lost; and commands are executed in the order they were accepted.
C10_FifoExactlyOnce ==
    LET queued == SeqRange(QueueIds(command_queue))
        done == SeqRange(executed)
        held == InFlight("proc")
    IN /\ StrictlyIncreasing(executed)
       /\ StrictlyIncreasing(QueueIds(command_queue))
       /\ queued \cup held \cup done \cup cleared = 0..(accepted - 1)
       /\ queued \cap held = {}
       /\ queued \cap done = {}
       /\ queued \cap cleared = {}
       /\ held \cap done = {}
       /\ held \cap cleared = {}
       /\ done \cap cleared = {}
       /\ \A h \in held : /\ \A d \in done : d < h
                          /\ \A k \in queued : h < k
       /\ \A d \in done : \A k \in queued : d < k

\* Two commands were executed, one after the other, and one was cleared.
C10_Witness ==
    /\ Len(executed) >= 2
    /\ cleared # {}

\* C21: once the catch-up window has expired with traversal steps still
\* owed (the finally clause is past its catch-up wait, not interrupted and
\* with no traversal exception), the coordinating task waits for no further
\* traversal pulse: the step counter stays as it is until the direct
\* step_motor() move, which is issued for exactly
\* first_layer_steps - traversal_steps_moved steps.
C21_OwedStepsGoToDirectMove ==
    /\ [][(w_pc = "await_trav" /\ ~interrupted /\ w_pending = "none"
             /\ traversal_steps_moved < first_layer_steps)
            => traversal_steps_moved' = traversal_steps_moved]_vars
    /\ [][(~fallback_started /\ fallback_started')
            => remaining_steps' = first_layer_steps - traversal_steps_moved]_vars

\* C22: while running is True the traversal is never ahead of the last
\* observed slot plus 0.98 of a slot,
\*   traversal_steps_moved
\*     <= floor((encoder_slot_count + 0.98) * first_layer_steps / target_encoder_slots),
\* and the extrapolation added to the slot count is within [0, 0.98] and is
\* zero when it was computed with running False or the slot target reached.
C22_NeverAheadOfObservedSlot ==
    /\ [](running =>
            traversal_steps_moved
              <= ((encoder_slot_count * 100 + 98) * first_layer_steps)
                    \div (target_encoder_slots * 100))
    /\ [](slot_fraction \in 0..98)
    /\ [][(slot_fraction' # slot_fraction /\ slot_fraction' # 0)
            => (running /\ encoder_slot_count < target_encoder_slots)]_vars

\* C23: the interval between traversal pulses computed by the task is
\* always within [STEPPER_MIN_INTERVAL_US, STEPPER_MAX_INTERVAL_US], and no
\* pulse begins less than STEPPER_MIN_INTERVAL_US after the one before it,
\* also when the deadline next_step_us has fallen behind the clock.
C23_PulsesKeepMinimumDistance ==
    /\ step_interval_us \in STEPPER_MIN_INTERVAL_US..STEPPER_MAX_INTERVAL_US
    /\ pulse_gap_us >= STEPPER_MIN_INTERVAL_US

\* The routine is in its chunked seek (lines 73-84).
InSeek ==
    \/ h_pc \in {"seek_test", "seek_check"}
    \/ h_pc \in {"sm_settle", "sm_yield", "sm_end"} /\ sm_return = "seek"

\* C24: the seek runs only when the sensor was inactive at the start; it
\* moves counter-clockwise in chunks of at most HOMING_CHUNK_STEPS, starts a
\* chunk only after reading the sensor inactive with budget left, and never
\* issues more than HOMING_MAX_STEPS pulses; a sensor that reads inactive
\* after the loop raises the error before any backoff or refine pulse, and
\* a sensor that reads active at the start leads to the backoff with no
\* seek pulse.
C24_SeekIsChunkedAndBounded ==
    /\ [](InSeek => /\ ~already_home
                    /\ dir_pin = DirLevel(COUNTERCLOCKWISE)
                    /\ sm_steps <= HOMING_CHUNK_STEPS
                    /\ steps_taken <= h_pulses
                    /\ h_pulses <= HOMING_MAX_STEPS)
    /\ [](already_home => steps_taken = 0)
    /\ [][(h_pc = "start" /\ sensor_read' = 0)
            => (h_pc' = "backoff" /\ h_pulses' = 0)]_vars
    /\ [][(h_pc = "seek_test" /\ h_pc' # "seek_check")
            => (sensor_read' # 0 /\ steps_taken < HOMING_MAX_STEPS)]_vars
    /\ [][(h_pc = "seek_test" /\ sensor_read' = 0) => h_pc' = "seek_check"]_vars
    /\ [][(h_pc = "seek_check" /\ sensor_read' # 0)
            => (/\ h_pc' = "raised" /\ h_exc' = "RuntimeError"
                /\ h_pulses' = steps_taken /\ sk_phase' = "none"
                /\ ~stepper_enabled')]_vars
    /\ [][(h_pc = "seek_check" /\ h_pc' = "backoff") => sensor_read' = 0]_vars

\* C24 witness: the seek used its whole budget, the sensor still read
\* inactive and the routine raised the error with no pulse beyond the seek.
C24_Witness ==
    /\ h_pc = "raised" /\ h_exc = "RuntimeError" /\ sk_phase = "none"
    /\ steps_taken = HOMING_MAX_STEPS /\ h_pulses = HOMING_MAX_STEPS
    /\ sensor_read # 0

\* step_motor is running, or about to return, for the caller `back`.
InStepMotor(back) ==
    h_pc \in {"sm_settle", "sm_yield", "sm_end"} /\ sm_return = back

\* seek_home is running for the pass `phase`.
InSeekHome(phase) ==
    /\ sk_phase = phase
    /\ h_pc = "sk_test" \/ InStepMotor("seek_home")

\* C25: the backoff is one clockwise move of HOMING_BACKOFF_STEPS pulses and
\* the primary refine starts only after all of them; the primary refine
\* moves counter-clockwise, one pulse per step_motor call, at most
\* HOMING_BACKOFF_STEPS pulses; the opposite pass starts only after the
\* sensor read inactive following the primary pass and issues at most
\* 2 * HOMING_BACKOFF_STEPS clockwise pulses; in both passes a pulse is
\* issued only when the latest read of the sensor was inactive, and the
\* pass ends when the read after a pulse is active.
C25_RefineIsStepwiseAndBounded ==
    /\ [](InStepMotor("backoff")
            => (/\ dir_pin = DirLevel(CLOCKWISE)
                /\ sm_steps = HOMING_BACKOFF_STEPS
                /\ h_pulses = steps_taken + sm_index))
    /\ [][(sk_phase = "none" /\ sk_phase' = "primary")
            => h_pulses' = steps_taken + HOMING_BACKOFF_STEPS]_vars
    /\ [](InSeekHome("primary")
            => (/\ dir_pin = DirLevel(COUNTERCLOCKWISE)
                /\ sk_steps <= HOMING_BACKOFF_STEPS
                /\ h_pulses - (steps_taken + HOMING_BACKOFF_STEPS)
                     <= HOMING_BACKOFF_STEPS))
    /\ [](InSeekHome("fallback")
            => (/\ dir_pin = DirLevel(CLOCKWISE)
                /\ sk_steps <= 2 * HOMING_BACKOFF_STEPS
                /\ h_pulses - (steps_taken + HOMING_BACKOFF_STEPS
                               + refine_steps_primary)
                     <= 2 * HOMING_BACKOFF_STEPS))
    /\ [][(sk_phase = "primary" /\ sk_phase' = "fallback")
            => sensor_read' # 0]_vars
    /\ [][(sk_phase \in {"primary", "fallback"} /\ h_pulses' # h_pulses)
            => (/\ h_pc \in {"sk_test", "sm_settle"}
                /\ sensor_read' # 0 /\ sm_steps' = 1
                /\ h_pulses' = h_pulses + 1)]_vars
    /\ [][(sk_phase \in {"primary", "fallback"} /\ InStepMotor("seek_home")
             /\ h_pc = "sm_end" /\ h_pc' = "sk_test")
            => sensor_read' # 0]_vars

\* C25 witness: both refine passes ran to their limits without the sensor
\* reading active.
C25_Witness ==
    /\ h_pc = "refined" /\ sensor_read # 0
    /\ refine_steps_primary = HOMING_BACKOFF_STEPS
    /\ refine_steps_fallback = 2 * HOMING_BACKOFF_STEPS
    /\ h_pulses = steps_taken + 4 * HOMING_BACKOFF_STEPS

\* Pulses issued before the recovery search began.
PulsesBeforeRecovery ==
    steps_taken + HOMING_BACKOFF_STEPS + refine_steps_primary
      + refine_steps_fallback

\* C26: the recovery search starts only from the sensor read that follows
\* the refine passes, and only when that read is inactive; it issues at
\* most HOMING_MAX_STEPS counter-clockwise pulses, then, only if the sensor
\* again reads inactive, at most HOMING_MAX_STEPS clockwise pulses; after
\* the search the routine raises its error exactly when the sensor reads
\* inactive, and no error of the routine after the backoff has another
\* origin.
C26_RecoveryIsBoundedAndDecides ==
    /\ [][(sk_phase # "recovery_ccw" /\ sk_phase' = "recovery_ccw")
            => (h_pc = "refined" /\ sensor_read' # 0)]_vars
    /\ [][(h_pc = "refined" /\ sensor_read' # 0)
            => sk_phase' = "recovery_ccw"]_vars
    /\ [](InSeekHome("recovery_ccw")
            => (/\ dir_pin = DirLevel(COUNTERCLOCKWISE)
                /\ sk_steps <= HOMING_MAX_STEPS
                /\ h_pulses - PulsesBeforeRecovery <= HOMING_MAX_STEPS))
    /\ [][(sk_phase # "recovery_cw" /\ sk_phase' = "recovery_cw")
            => (sk_phase = "recovery_ccw" /\ sensor_read' # 0)]_vars
    /\ [](InSeekHome("recovery_cw")
            => (/\ dir_pin = DirLevel(CLOCKWISE)
                /\ sk_steps <= HOMING_MAX_STEPS
                /\ h_pulses - (PulsesBeforeRecovery + recovery_steps_ccw)
                     <= HOMING_MAX_STEPS))
    /\ [][h_pc = "after_recovery_cw"
            => ((sensor_read' # 0)
                  <=> (h_pc' = "raised" /\ h_exc' = "RuntimeError"))]_vars
    /\ []((h_pc = "raised" /\ h_exc = "RuntimeError" /\ sk_phase # "none")
            => (sk_phase \in {"recovery_ccw", "recovery_cw"}
                /\ sensor_read # 0))

\* C26 witness: both recovery searches used their whole budget and the
\* routine raised its error.
C26_Witness ==
    /\ h_pc = "raised" /\ h_exc = "RuntimeError" /\ sk_phase = "recovery_cw"
    /\ recovery_steps_ccw = HOMING_MAX_STEPS
    /\ recovery_steps_cw = HOMING_MAX_STEPS
    /\ h_pulses = PulsesBeforeRecovery + 2 * HOMING_MAX_STEPS

\* Line 156: the total the routine reports on success.
homed_steps ==
    steps_taken - HOMING_BACKOFF_STEPS
      + (refine_steps_primary + refine_steps_fallback)

\* C27: when the routine returns, the total it reports is the number of
\* pulses the run issued (seek, backoff, refine and recovery together) and
\* is not negative.
C27_ReportedTotalIsPulsesIssued ==
    (h_pc = "returned") => (homed_steps = h_pulses /\ homed_steps >= 0)

\* C28: the duty written to the spindle PWM is always within
\* [0, MAX_DUTY]; a control tick is evaluated only when the elapsed time has
\* reached the control interval, which is positive; and a tick changes the
\* duty by -round(error * Kp), clamped to [0, MAX_DUTY].
C28_TickWritesClampedRoundedDuty ==
    /\ [](pwm_duty \in 0..MAX_DUTY /\ duty_value \in 0..MAX_DUTY)
    /\ [][control_ticks' # control_ticks
            => (/\ SPEED_CONTROL_INTERVAL_MS_DEFAULT > 0
                /\ control_elapsed_ms >= SPEED_CONTROL_INTERVAL_MS_DEFAULT
                /\ duty_value' =
                     clamp_duty_value(duty_value
                        - Round(error_times_kp'[1], error_times_kp'[2])))]_vars

\* C29: total_steps changes only when a command completes, and then by the
\* command's magnitude, or when it is reset to zero; so every value another
\* context reads is the sum of the magnitudes of the commands completed
\* since the last reset, never a part of a command's pulses.
C29_TotalCountsWholeCommands ==
    [][total_steps' # total_steps
         => \/ \E c \in Ctx : pc[c] = "idle" /\ op'[c] = "reset_step_count"
                               /\ total_steps' = 0
            \/ \E c \in Ctx : /\ pc[c] = "step_store"
                              /\ pulses_left[c] = 0
                              /\ total_steps' =
                                   total_steps + Abs(command[c].steps)]_vars

\* C30: when the waiting context has read queue_length() == 0 and then
\* is_executing == False, with only queue_step calls made on the object,
\* every accepted command has completed its step() and total_steps is the
\* sum of the magnitudes of the accepted commands.
C30_QuiescenceImpliesCompletion ==
    (watch_pc = "quiet")
       => /\ executed = [i \in 1..accepted |-> i - 1]
          /\ pc["proc"] \notin {"step_loop", "step_store", "eaq_pop", "eaq_while",
                                 "eaq_set_flag"}
          /\ total_steps = accepted_steps

\* C30 witness: the accepted commands were stepped to their end and the
\* waiting context then saw the object quiet.
C30_Witness ==
    /\ watch_pc = "quiet" /\ accepted = TwoMaxAccepted
    /\ total_steps = accepted_steps /\ accepted_steps > 0
    /\ Len(executed) = TwoMaxAccepted

\* C31: with the queue-processor thread fairly scheduled and clear_queue()
\* never called, every command queue_step() accepted is eventually executed;
\* this includes a command appended after the drain loop saw the queue empty
\* and before the finally clause cleared is_executing.
C31_AcceptedIsEventuallyExecuted ==
    \A i \in 0..(TwoMaxAccepted - 1) :
        (accepted > i) ~> (i \in SeqRange(executed))

\* C31 witness: the drain loop has executed a command and seen the queue
\* empty, and before the finally clause clears the flag queue_step() has
\* accepted another command, which waits in the queue.
C31_Witness ==
    /\ pc["proc"] = "eaq_finally"
    /\ is_executing
    /\ Len(executed) = 1
    /\ accepted = TwoMaxAccepted
    /\ Len(command_queue) = TwoMaxAccepted - 1

\* The step pulses one run of home_traversal_guide may issue at most.
HomingPulseBudget == 3 * HOMING_MAX_STEPS + 4 * HOMING_BACKOFF_STEPS

\* C32: home_traversal_guide ends (by its return or by an exception)
\* whatever the sensor reads, and one run issues at most
\* 3 * HOMING_MAX_STEPS + 4 * HOMING_BACKOFF_STEPS step pulses.
C32_HomingTerminatesWithinBudget ==
    /\ [](h_pulses <= HomingPulseBudget)
    /\ <>(h_pc \in {"returned", "raised"})

\* C32 witness: a run that used every budget in full (seek, backoff, both
\* refine passes, both recovery passes) has ended.
C32_Witness ==
    /\ h_pc \in {"returned", "raised"}
    /\ h_pulses = HomingPulseBudget
    /\ recovery_steps_cw = HOMING_MAX_STEPS

\* C33: home_traversal_guide returns normally only when the last sensor
\* read the routine made returned the active level (0); and a run whose
\* reads are all inactive ends by raising.
C33_ReturnsOnlyOnActiveRead ==
    /\ [](h_pc = "returned" => sensor_read = 0)
    /\ ([](sensor_read # 0)) => <>(h_pc = "raised")

\* C33 witness: the routine returned after the recovery search, its last
\* read active.
C33_Witness ==
    /\ h_pc = "returned"
    /\ sensor_read = 0
    /\ recovery_steps_ccw > 0

\* C34: an edge of the encoder pin into the active level that comes at
\* least ENCODER_DEBOUNCE_MS after the previous edge increments
\* encoder_slot_count, also when the release edge before it was dropped by
\* the debounce and left encoder_in_gap True.
C34_RealSlotAfterBounceIsCounted ==
    [][(/\ irq_attached
        /\ sensor_level' = ENCODER_ACTIVE_LEVEL
        /\ sensor_level # ENCODER_ACTIVE_LEVEL
        /\ ms_since_edge >= ENCODER_DEBOUNCE_MS)
         => encoder_slot_count' = encoder_slot_count + 1]_vars

\* C35: the first positive inter-slot interval seeds
\* filtered_slot_interval_ms; each later positive interval makes it
\* (3 * filtered + interval) // 4; a non-positive interval leaves it as it
\* was; and once seeded the filtered value is at least 1 and lies between
\* the smallest and the largest positive interval seen so far.
C35_IntervalFilter ==
    /\ [][encoder_slot_count' # encoder_slot_count
            => filtered_slot_interval_ms' =
                 IF last_interval_ms' <= 0 THEN filtered_slot_interval_ms
                 ELSE IF max_interval_ms = 0 THEN last_interval_ms'
                 ELSE ((3 * filtered_slot_interval_ms) + last_interval_ms') \div 4]_vars
    /\ [][(irq_attached /\ encoder_slot_count' = encoder_slot_count)
            => filtered_slot_interval_ms' = filtered_slot_interval_ms]_vars
    /\ [](max_interval_ms > 0
            => /\ filtered_slot_interval_ms >= 1
               /\ filtered_slot_interval_ms >= min_interval_ms
               /\ filtered_slot_interval_ms <= max_interval_ms)
    /\ [](max_interval_ms = 0 => filtered_slot_interval_ms = 0)

\* C35 witness: after intervals of 8 ms and of 1 ms, and one that was not
\* positive, the filter stands at 4 ms, a value the integer division cut.
C35_Witness ==
    /\ encoder_slot_count = target_encoder_slots + MaxOvershoot
    /\ min_interval_ms = 1
    /\ max_interval_ms = 8
    /\ filtered_slot_interval_ms = 4

\* C36: every layer of a plan winding_plan() returns for positive inputs
\* has its position, counted from 1, as layer_number, turns > 0 and
\* steps >= 0, also when spool_width_mm < wire_diameter_mm.
C36_LayersAreWellFormed ==
    (PositiveInputs /\ plan_pc = "returned")
        => \A i \in 1..Len(layers) :
              /\ layers[i][1] = i
              /\ layers[i][2] > 0
              /\ layers[i][3] >= 0

\* winding_plan_summary(total_turns, layers), lines 87-94.
winding_plan_summary(requested, ls) ==
    [requested_turns |-> requested,
     actual_turns |-> SumTurns(ls),
     overrun_turns |-> SumTurns(ls) - requested,
     layer_count |-> Len(ls)]

\* C37: the plan ends with the first layer at which the turns so far reach
\* total_turns: the layers before the last hold fewer than total_turns
\* turns, and the summary's overrun_turns is actual_turns - requested_turns,
\* at least 0 and less than the turns of the last layer.
C37_PlanStopsAtFirstCoveringLayer ==
    (plan_pc = "returned" /\ layers # <<>>)
        => LET summary == winding_plan_summary(total_turns, layers)
               n == Len(layers)
           IN /\ SumTurns(SubSeq(layers, 1, n - 1)) < total_turns
              /\ summary.actual_turns >= total_turns
              /\ summary.overrun_turns = summary.actual_turns - summary.requested_turns
              /\ summary.overrun_turns >= 0
              /\ summary.overrun_turns < layers[n][2]
              /\ summary.layer_count = n

\* C37 witness: the plan of the example (300 turns, 20 mm spool, 0.85 mm
\* wire) has 13 layers; the first twelve hold 282 turns and the last, of
\* 24 turns, goes 6 turns past the request.
C37_Witness ==
    /\ plan_pc = "returned"
    /\ total_turns = 300
    /\ Len(layers) = 13
    /\ SumTurns(SubSeq(layers, 1, 12)) = 282
    /\ winding_plan_summary(total_turns, layers).overrun_turns = 6
    /\ layers[13][2] = 24

\* C38: a call of the DRDY handler that finds the scheduler's queue full
\* drops its notification: the drop counter goes up by exactly 1, the
\* handler sets no flag itself, and it returns (the edge is counted).
C38_SaturatedSchedulerDropsNotification ==
    [][(/\ drdy_flag # "none"
        /\ scheduled = SchedulerDepth
        /\ drdy_irq_count' = drdy_irq_count + 1)
         => /\ drdy_schedule_drop_count' = drdy_schedule_drop_count + 1
            /\ ~drdy_irq_signalled'
            /\ drdy_flag' = drdy_flag
            /\ scheduled' = scheduled]_vars

\* The steps of the commands waiting in the stepper's queue.
RECURSIVE QueuedSteps(_)
QueuedSteps(q) == IF q = <<>> THEN 0 ELSE Abs(Head(q).steps) + QueuedSteps(Tail(q))

C40_DutyRampsToTarget ==
    /\ [](spindle_duty >= 0 /\ spindle_duty <= 65535)
    /\ [][(spindle_ramp_rate > 0 /\ spindle_target' = spindle_target)
            => /\ spindle_duty <= spindle_target
                   => (spindle_duty' >= spindle_duty /\ spindle_duty' <= spindle_target)
               /\ spindle_duty >= spindle_target
                   => (spindle_duty' <= spindle_duty /\ spindle_duty' >= spindle_target)]_vars
    /\ <>[](spindle_duty = spindle_target)

====
